---- MODULE Spec2Model ----
(***************************************************************************)
(* Verification model of the EverMemBench dataset pipeline:                *)
(*   - the retrying callers of the generation endpoint (phases 1-5),       *)
(*   - the batch orchestrations of phases 1-3 and their drivers,           *)
(*   - the timeline phase (validate / apply / save of one project).        *)
(* Python dicts are records whose DOMAIN is the set of keys present;       *)
(* dict.get(k) of an absent key is Python's None.                          *)
(***************************************************************************)
EXTENDS Integers, Sequences, FiniteSets, TLC

VARIABLES
    \* ---- one invocation of a retrying caller ----
    caller,         \* which caller runs
    max_retries,    \* its retry budget
    attempt,        \* loop iterations completed
    requests,       \* requests issued to the generation endpoint
    call_log,       \* endpoint outcome of every attempt, in order
    call_status,    \* "running" | "returned" | "raised"
    call_result,    \* value handed back: NoData, or the data of attempt k
    call_error,     \* exception propagated to the invoker: NoError or [attempt, type]
    \* ---- one run of a batch phase (1: employee generation, 2: skills,
    \*      3: communication style) ----
    phase,          \* which phase script runs
    TOTAL_EMPLOYEES,\* config.TOTAL_EMPLOYEES (phase 1)
    all_employees,  \* the employees generated so far (phase 1)
    employees,      \* the employee names read from the input file, in file order
    batch_size,     \* batch_size argument of the orchestrator
    batch_num,      \* batches whose loop iteration has ended
    assignments,    \* the merged map: name -> value
    batches_sent,   \* the batch_employees of every iteration, in order
    failed_batches, \* batch numbers whose call came back empty-handed
    last_merge,     \* what the merge loop of the last iteration did
    orch_status,    \* "running" | "done" | "aborted" (returned None)
    main_status,    \* "running" | "exit_1" | "exit_0"
    out_file,       \* the employee spreadsheet written by the phase, if any
    \* ---- one project going through the timeline phase (phase 5) ----
    project_file,   \* the subtasks of the project JSON on disk
    original_file,  \* project_file as it was before the phase ran
    timeline_result,\* what call_gpt_for_timeline gave process_single_project
    validation,     \* what validate_timeline gave process_single_project
    steps,          \* the steps process_single_project ran, in order
    outcome,        \* "pending" | "success" | the exception it raised
    \* ---- one run of the timeline driver (main of phase 5) ----
    projects_dir_exists, \* whether output/projects exists
    project_files,  \* the files the glob found, in order: [stem, readable, subtasks]
    project_reports,\* the report entries appended so far
    raised_by,      \* what process_single_project did for each file handled
    summary_report, \* timeline_assignment_report.json, if written
    main_5_status,  \* "running" | "looping" | "exit_0": how main has ended
    \* ---- one run of the task generation driver (main of phase 4) ----
    num_projects,   \* config.NUM_PROJECTS
    all_projects,   \* the project_data built and saved so far
    stage_log,      \* what the generation of the last project was given and did
    main_4_status,  \* "running" | "exit_1" | "exit_0"
    \* ---- main of phase 1 once the employees are generated ----
    records,        \* the employees list main holds
    checks,         \* what each validate_employee_data call returned, in order
    fixed_count,    \* names fix_duplicate_names replaced
    employee_file,  \* employees.xlsx, if written
    main_1_status,  \* "running" | "exit_1" | "exit_0"
    \* ---- one application of a function of the pipeline ----
    func,           \* the function applied
    func_args,      \* the arguments it is given
    func_result     \* what it returned: [called |-> FALSE] before the call

callVars == <<caller, max_retries, attempt, requests, call_log, call_status,
              call_result, call_error>>

batchParams == <<phase, TOTAL_EMPLOYEES, employees, batch_size>>

batchVars == <<phase, TOTAL_EMPLOYEES, all_employees, employees, batch_size,
               batch_num, assignments,
               batches_sent, failed_batches, last_merge, orch_status,
               main_status, out_file>>

timelineVars == <<project_file, original_file, timeline_result, validation,
                  steps, outcome>>

driverVars == <<projects_dir_exists, project_files, project_reports,
                raised_by, summary_report, main_5_status>>

phase4Vars == <<num_projects, all_projects, stage_log, main_4_status>>

recordVars == <<records, checks, fixed_count, employee_file, main_1_status>>

funcVars == <<func, func_args, func_result>>

\* What the actions of one part leave alone.
exceptCall == <<batchVars, timelineVars, driverVars, phase4Vars, recordVars,
    funcVars>>
exceptBatch == <<callVars, timelineVars, driverVars, phase4Vars, recordVars,
    funcVars>>
exceptTimeline == <<callVars, batchVars, driverVars, phase4Vars, recordVars,
    funcVars>>
exceptDriver == <<callVars, batchVars, timelineVars, phase4Vars, recordVars,
    funcVars>>
exceptPhase4 == <<callVars, batchVars, timelineVars, driverVars, recordVars,
    funcVars>>
exceptRecords == <<callVars, batchVars, timelineVars, driverVars, phase4Vars,
    funcVars>>
exceptFunctions == <<callVars, batchVars, timelineVars, driverVars, phase4Vars,
    recordVars>>

vars == <<caller, max_retries, attempt, requests, call_log, call_status,
          call_result, call_error,
          phase, TOTAL_EMPLOYEES, all_employees, employees, batch_size,
          batch_num, assignments,
          batches_sent, failed_batches, last_merge, orch_status,
          main_status, out_file,
          project_file, original_file, timeline_result, validation, steps,
          outcome,
          projects_dir_exists, project_files, project_reports, raised_by,
          summary_report, main_5_status,
          num_projects, all_projects, stage_log, main_4_status,
          records, checks, fixed_count, employee_file, main_1_status,
          func, func_args, func_result>>

----------------------------------------------------------------------------
(* Bounds of the model *)

MaxRetries == 3     \* retry budgets explored: 1..MaxRetries
MaxEmployees == 3   \* employees in the input file: 0..MaxEmployees
MaxBatchSize == 2   \* batch sizes explored: 1..MaxBatchSize
MaxSubtasks == 2    \* subtasks of a project: 0..MaxSubtasks
MaxTimeline == 2    \* entries of a task_timeline: 0..MaxTimeline

----------------------------------------------------------------------------
(* The generation endpoint, as seen by one attempt *)

\* What one request to the endpoint produces.
\*   transport_error : chat.completions.create raised
\*   content_none    : message.content is None
\*   content_empty   : the content is empty after strip()
\*   not_json        : text that is no JSON at all
\*   prose_json      : the expected JSON object with prose before/after it
\*   json_other      : valid JSON without the expected top-level structure
\*   json_ok         : the expected JSON object (bare or inside a markdown fence)
EndpointOutcomes ==
    {"transport_error", "content_none", "content_empty", "not_json",
     "prose_json", "json_other", "json_ok"}

Callers == {"call_gpt5_1", "call_gpt5_2", "call_gpt5_3", "call_gpt5_phase4",
            "call_gpt_for_timeline"}

NoData == [kind |-> "None", attempt |-> 0]
Data(k) == [kind |-> "data", attempt |-> k]

NoError == [type |-> "none", attempt |-> 0]
\* The exception object caught in attempt k, as the bare `raise` propagates it.
\* Faulty variant: the exception of the first attempt, not of attempt k.
MutError(t, k) == [type |-> t, attempt |-> 1]
Error(t, k) == [type |-> t, attempt |-> k]

\* The body of the try block of call_gpt5 (phases 1 and 4, same text): "ok"
\* when json.loads returns, else the exception that ends the attempt.
TryBody_call_gpt5(o) ==
    CASE o = "transport_error" -> "Exception"
      [] o = "content_none"    -> "AttributeError"    \* None.strip()
      [] o = "content_empty"   -> "JSONDecodeError"   \* json.loads("")
      [] o = "not_json"        -> "JSONDecodeError"
      [] o = "prose_json"      -> "JSONDecodeError"
      [] OTHER                 -> "ok"

\* Phase 2 checks content for None and for emptiness before parsing.
TryBody_call_gpt5_2(o) ==
    CASE o = "transport_error" -> "Exception"
      [] o = "content_none"    -> "NoneContent"
      [] o = "content_empty"   -> "EmptyContent"
      [] o = "not_json"        -> "JSONDecodeError"
      [] o = "prose_json"      -> "JSONDecodeError"
      [] OTHER                 -> "ok"

\* The timeline caller cuts the text between the first { and the last },
\* parses it and requires the task_timeline field.
TryBody_call_gpt_for_timeline(o) ==
    CASE o = "transport_error" -> "Exception"
      [] o = "content_none"    -> "AttributeError"
      [] o = "content_empty"   -> "ValueError"        \* no { } found
      [] o = "not_json"        -> "JSONDecodeError"
      [] o = "json_other"      -> "ValueError"        \* task_timeline missing
      [] OTHER                 -> "ok"

\* The try body of caller c.
TryBody(c, o) ==
    CASE c = "call_gpt5_2"           -> TryBody_call_gpt5_2(o)
      [] c = "call_gpt_for_timeline" -> TryBody_call_gpt_for_timeline(o)
      [] OTHER                       -> TryBody_call_gpt5(o)

\* `attempt < retries - 1`: a failed attempt is followed by another one.
\* Faulty variant: gives up one attempt early.
MutAttemptsRemain(a, retries) == a < retries - 2
AttemptsRemain(a, retries) == a < retries - 1

\* `for attempt in range(retries)`: the loop body runs for index a.
InRange(a, retries) == a < retries

----------------------------------------------------------------------------
(* One loop iteration of each caller *)

\* config.OPENAI_API_KEY is a non-empty literal, so the `if not
\* config.OPENAI_API_KEY: return None` of phases 1, 2 and 4 is not taken.
OPENAI_API_KEY_SET == TRUE

\* Common shape of phases 1, 2, 4: every failure path either sleeps and
\* continues, or returns None; falling out of the loop returns None too.
ReturnNoneIteration ==
    /\ call_status = "running"
    /\ InRange(attempt, max_retries)
    /\ IF ~OPENAI_API_KEY_SET
       THEN /\ call_status' = "returned"
            /\ call_result' = NoData
            /\ UNCHANGED <<requests, call_log, attempt, call_error>>
       ELSE \E o \in EndpointOutcomes :
            /\ requests' = requests + 1
            /\ call_log' = Append(call_log, o)
            /\ attempt' = attempt + 1
            /\ call_error' = NoError
            /\ IF TryBody(caller, o) = "ok"
               THEN /\ call_status' = "returned"
                    /\ call_result' = Data(attempt + 1)
               ELSE IF AttemptsRemain(attempt, max_retries)
                         /\ InRange(attempt + 1, max_retries)
                    THEN /\ call_status' = "running"
                         /\ call_result' = call_result
                    ELSE /\ call_status' = "returned"
                         /\ call_result' = NoData
    /\ UNCHANGED <<caller, max_retries>>
    /\ UNCHANGED exceptCall

call_gpt5_1 ==
    /\ caller = "call_gpt5_1"
    /\ ReturnNoneIteration

call_gpt5_2 ==
    /\ caller = "call_gpt5_2"
    /\ ReturnNoneIteration

\* Phase 3 counts attempts from 1: `for attempt in range(1, max_retries + 1)`
\* and retries while `attempt < max_retries`.
call_gpt5_3 ==
    /\ caller = "call_gpt5_3"
    /\ call_status = "running"
    /\ InRange(attempt, max_retries)
    /\ \E o \in EndpointOutcomes :
         /\ requests' = requests + 1
         /\ call_log' = Append(call_log, o)
         /\ attempt' = attempt + 1
         /\ call_error' = NoError
         /\ IF TryBody(caller, o) = "ok"
            THEN /\ call_status' = "returned"
                 /\ call_result' = Data(attempt + 1)
            ELSE IF attempt + 1 < max_retries
                 THEN /\ call_status' = "running"
                      /\ call_result' = call_result
                 ELSE /\ call_status' = "returned"
                      /\ call_result' = NoData
    /\ UNCHANGED <<caller, max_retries>>
    /\ UNCHANGED exceptCall

call_gpt5_phase4 ==
    /\ caller = "call_gpt5_phase4"
    /\ ReturnNoneIteration

\* The timeline caller re-raises the exception of the last attempt.
call_gpt_for_timeline ==
    /\ caller = "call_gpt_for_timeline"
    /\ call_status = "running"
    /\ InRange(attempt, max_retries)
    /\ \E o \in EndpointOutcomes :
         LET r == TryBody(caller, o) IN
         /\ requests' = requests + 1
         /\ call_log' = Append(call_log, o)
         /\ attempt' = attempt + 1
         /\ IF r = "ok"
            THEN /\ call_status' = "returned"
                 /\ call_result' = Data(attempt + 1)
                 /\ call_error' = NoError
            ELSE IF AttemptsRemain(attempt, max_retries)
                 THEN /\ call_result' = call_result
                      /\ call_error' = NoError
                      /\ IF InRange(attempt + 1, max_retries)
                         THEN call_status' = "running"
                         ELSE call_status' = "returned"   \* falls off the loop
                 ELSE /\ call_status' = "raised"
                      /\ call_result' = call_result
                      /\ call_error' = Error(r, attempt + 1)
    /\ UNCHANGED <<caller, max_retries>>
    /\ UNCHANGED exceptCall

\* The parts of the state a specification does not exercise.
NotApplied == [called |-> FALSE]

IdleFunctions ==
    /\ func = "none"
    /\ func_args = <<>>
    /\ func_result = NotApplied

NoTimeline == [kind |-> "none"]

IdleTimeline ==
    /\ project_file = <<>>
    /\ original_file = <<>>
    /\ timeline_result = NoTimeline
    /\ validation = [kind |-> "none"]
    /\ steps = <<>>
    /\ outcome = "idle"

NoSummary == [written |-> FALSE]

IdleRecords ==
    /\ records = <<>>
    /\ checks = <<>>
    /\ fixed_count = 0
    /\ employee_file = [written |-> FALSE, rows |-> <<>>]
    /\ main_1_status = "idle"

NoStage == [project_number |-> 0]

IdlePhase4 ==
    /\ num_projects = 0
    /\ all_projects = <<>>
    /\ stage_log = NoStage
    /\ main_4_status = "idle"

IdleDriver ==
    /\ projects_dir_exists = FALSE
    /\ project_files = <<>>
    /\ project_reports = <<>>
    /\ raised_by = <<>>
    /\ summary_report = NoSummary
    /\ main_5_status = "idle"

IdleBatch ==
    /\ phase = 0
    /\ TOTAL_EMPLOYEES = 0
    /\ all_employees = <<>>
    /\ employees = <<>>
    /\ batch_size = 1
    /\ batch_num = 0
    /\ assignments = <<>>
    /\ batches_sent = <<>>
    /\ failed_batches = {}
    /\ last_merge = [requested |-> 0, received |-> 0, added |-> 0,
                     overwritten |-> 0, warnings |-> 0]
    /\ orch_status = "idle"
    /\ main_status = "idle"
    /\ out_file = [written |-> FALSE, rows |-> <<>>]

InitCall ==
    /\ caller \in Callers
    /\ max_retries \in 1..MaxRetries
    /\ attempt = 0
    /\ requests = 0
    /\ call_log = <<>>
    /\ call_status = "running"
    /\ call_result = NoData
    /\ call_error = NoError
    /\ IdleBatch
    /\ IdleTimeline
    /\ IdleDriver
    /\ IdlePhase4
    /\ IdleRecords
    /\ IdleFunctions

NextCall ==
    \/ call_gpt5_1
    \/ call_gpt5_2
    \/ call_gpt5_3
    \/ call_gpt5_phase4
    \/ call_gpt_for_timeline

SpecCall == InitCall /\ [][NextCall]_vars

----------------------------------------------------------------------------
(* Claims about the retrying callers *)

\* The responses a caller is specified to accept as parsed: strict JSON for
\* call_gpt5 / call_gpt5_phase4, a JSON object carrying task_timeline
\* (possibly inside prose) for the timeline caller.
AcceptedOutcomes(c) ==
    IF c = "call_gpt_for_timeline"
    THEN {"prose_json", "json_ok"}
    ELSE {"json_other", "json_ok"}

CallEnded == call_status \in {"returned", "raised"}
CallFailed ==
    \/ call_status = "raised"
    \/ call_status = "returned" /\ call_result = NoData

\* C1: one invocation issues at most max_retries requests, returns the parsed
\* value of the first attempt whose response parses, issues no request after
\* that success, and reports failure only after exactly max_retries failed
\* attempts; transport and parse failures share the one budget.
C1_BoundedRetries ==
    /\ requests <= max_retries
    /\ requests = Len(call_log)
    /\ \A k \in 1..Len(call_log) :
          call_log[k] \in AcceptedOutcomes(caller)
            => /\ k = Len(call_log)
               /\ call_status = "returned"
               /\ call_result = Data(k)
    /\ CallFailed
          => /\ requests = max_retries
             /\ \A k \in 1..Len(call_log) :
                   call_log[k] \notin AcceptedOutcomes(caller)
    /\ (call_status = "running") => requests < max_retries

\* C1 witness: a call that failed once on transport, once on parsing, and
\* then returned the value of its third attempt.
C1_Witness ==
    /\ call_status = "returned"
    /\ call_result = Data(3)
    /\ call_log[1] = "transport_error"
    /\ call_log[2] = "not_json"

C24_MissingStructureIsRetried ==
    \A k \in DOMAIN call_log :
      call_log[k] = "json_other" =>
        /\ ~(call_status = "returned" /\ call_result = Data(k))
        /\ (k < max_retries /\ CallEnded) => k < Len(call_log)

----------------------------------------------------------------------------
(* Phase 3: the communication-style universe and its validator *)

\* generate_communication_style_universe: 8 hard-coded dimensions, each with
\* the labels of its high / medium / low level.
Dimension(d, h, m, l) ==
    [dimension |-> d, levels |-> [high |-> h, medium |-> m, low |-> l]]

generate_communication_style_universe ==
    << Dimension("Formality", "Formal", "Semi-formal", "Casual"),
       Dimension("Verbosity", "Detailed", "Moderate", "Concise"),
       Dimension("Humor", "Frequent", "Occasional", "Minimal"),
       Dimension("Jargon_Usage", "Technical", "Balanced", "Plain"),
       Dimension("Emoji_Usage", "Frequent", "Occasional", "Rare"),
       Dimension("Directness", "Direct", "Balanced", "Indirect"),
       Dimension("Warmth", "Warm", "Friendly", "Neutral"),
       Dimension("Questioning_Style", "Probing", "Clarifying", "Accepting") >>

\* valid_levels of validate_communication_style: dimension -> its 3 labels.
ValidLevels(universe) ==
    [d \in {universe[i].dimension : i \in DOMAIN universe} |->
        LET i == CHOOSE j \in DOMAIN universe :
                   /\ universe[j].dimension = d
                   /\ \A k \in DOMAIN universe :
                        universe[k].dimension = d => k <= j
        IN {universe[i].levels.high, universe[i].levels.medium,
            universe[i].levels.low}]

\* Faulty variant: every style is accepted.
Mut_validate_communication_style(style, universe) ==
    [is_valid |-> TRUE, errors |-> {}]
\* validate_communication_style(style, universe) -> (is_valid, errors)
validate_communication_style(style, universe) ==
    LET valid_levels == ValidLevels(universe)
        missing == {d \in DOMAIN valid_levels : d \notin DOMAIN style}
        invalid == {d \in DOMAIN valid_levels :
                       d \in DOMAIN style /\ style[d] \notin valid_levels[d]}
        unknown == {d \in DOMAIN style : d \notin DOMAIN valid_levels}
        errors == {<<"missing", d>> : d \in missing}
                    \cup {<<"invalid", d>> : d \in invalid}
                    \cup {<<"unknown", d>> : d \in unknown}
    IN [is_valid |-> errors = {}, errors |-> errors]

\* Style vectors a response may carry.
StyleNeutral ==
    [Formality |-> "Semi-formal", Verbosity |-> "Moderate",
     Humor |-> "Occasional", Jargon_Usage |-> "Balanced",
     Emoji_Usage |-> "Rare", Directness |-> "Direct", Warmth |-> "Friendly",
     Questioning_Style |-> "Clarifying"]
StyleLowerCase == [StyleNeutral EXCEPT !.Formality = "formal"]
StyleWithoutWarmth ==
    [d \in DOMAIN StyleNeutral \ {"Warmth"} |-> StyleNeutral[d]]
StyleWithTone ==
    [d \in DOMAIN StyleNeutral \cup {"Tone"} |->
       IF d = "Tone" THEN "Neutral" ELSE StyleNeutral[d]]

StyleSamples ==
    {StyleNeutral, StyleLowerCase, StyleWithoutWarmth, StyleWithTone}

\* hard_skills lists a response may carry.
SkillListSamples ==
    {<<>>, <<[skill |-> "Python", level |-> "strong"]>>}

----------------------------------------------------------------------------
(* Phases 2 and 3: batch orchestration *)

\* Sequences over S of length 0..n.
SeqsUpTo(S, n) == UNION {[1..k -> S] : k \in 0..n}

\* Names: employee i of the input file is called i.  A response names
\* employees of the batch it answers, or 0: a name outside the batch (the
\* "" of assignment.get("name", "") included).
ResponseNames(batch) == {0} \cup {batch[i] : i \in DOMAIN batch}

\* What call_gpt5 hands the orchestrator for one batch: None after exhausted
\* retries, a JSON object without "assignments", or one with a list of them,
\* up to one more than requested.
BatchResponses(values, batch) ==
    {[kind |-> "None"], [kind |-> "other"]}
      \cup {[kind |-> "assignments", items |-> its] :
              its \in SeqsUpTo([name : ResponseNames(batch), value : values],
                               Len(batch) + 1)}

\* total_batches = (len(employees) + batch_size - 1) // batch_size
TotalBatches(n, b) == (n + b - 1) \div b

Min(a, b) == IF a <= b THEN a ELSE b

\* employees[start_idx:end_idx] of batch batch_num (1-based)
\* Faulty variant: the slice runs one employee into the next batch.
MutBatchEmployees(emps, bn, b) ==
    LET start_idx == (bn - 1) * b
        end_idx == Min(start_idx + b + 1, Len(emps))
    IN SubSeq(emps, start_idx + 1, end_idx)
BatchEmployees(emps, bn, b) ==
    LET start_idx == (bn - 1) * b
        end_idx == Min(start_idx + b, Len(emps))
    IN SubSeq(emps, start_idx + 1, end_idx)

\* m[name] = value on a Python dict
DictSet(m, k, v) == [x \in DOMAIN m \cup {k} |-> IF x = k THEN v ELSE m[x]]

\* The merge loop of assign_skills_in_batches:
\*   for assignment in batch_assignments: assignments[name] = hard_skills
RECURSIVE MergeSkills(_, _)
MergeSkills(acc, items) ==
    IF items = <<>> THEN acc
    ELSE LET a == Head(items)
             hit == a.name \in DOMAIN acc.map
         IN MergeSkills(
              [map |-> DictSet(acc.map, a.name, a.value),
               overwritten |-> acc.overwritten + (IF hit THEN 1 ELSE 0),
               warnings |-> acc.warnings],
              Tail(items))

\* The merge loop of assign_communication_styles_in_batches: an assignment
\* enters the map only if validate_communication_style accepts it, else a
\* warning is logged.
RECURSIVE MergeStyles(_, _, _)
MergeStyles(acc, items, universe) ==
    IF items = <<>> THEN acc
    ELSE LET a == Head(items)
             ok == validate_communication_style(a.value, universe).is_valid
             hit == a.name \in DOMAIN acc.map
         IN MergeStyles(
              IF ok
              THEN [map |-> DictSet(acc.map, a.name, a.value),
                    overwritten |-> acc.overwritten + (IF hit THEN 1 ELSE 0),
                    warnings |-> acc.warnings]
              ELSE [acc EXCEPT !.warnings = @ + 1],
              Tail(items), universe)

MergeRecord(requested, received, before, after) ==
    [requested |-> requested, received |-> received,
     added |-> Cardinality(DOMAIN after.map) - Cardinality(DOMAIN before),
     overwritten |-> after.overwritten, warnings |-> after.warnings]

\* One iteration of the loop of assign_skills_in_batches (phase 2).
assign_skills_in_batches ==
    /\ phase = 2
    /\ orch_status = "running"
    /\ batch_num < TotalBatches(Len(employees), batch_size)
    /\ LET bn == batch_num + 1
           batch_employees == BatchEmployees(employees, bn, batch_size)
       IN
       /\ batches_sent' = Append(batches_sent, batch_employees)
       /\ \E response_data \in BatchResponses(SkillListSamples,
                                              batch_employees) :
            IF response_data.kind = "None"
            THEN \* `if not response_data: return None`
                 /\ orch_status' = "aborted"
                 /\ failed_batches' = failed_batches \cup {bn}
                 /\ UNCHANGED <<batch_num, assignments, last_merge>>
            ELSE IF response_data.kind = "other"
            THEN \* `if "assignments" not in response_data: return None`
                 /\ orch_status' = "aborted"
                 /\ UNCHANGED <<batch_num, assignments, last_merge,
                                failed_batches>>
            ELSE LET m == MergeSkills(
                            [map |-> assignments, overwritten |-> 0,
                             warnings |-> 0],
                            response_data.items)
                 IN /\ assignments' = m.map
                    /\ last_merge' = MergeRecord(Len(batch_employees),
                                                 Len(response_data.items),
                                                 assignments, m)
                    /\ batch_num' = bn
                    /\ UNCHANGED <<orch_status, failed_batches>>
    /\ UNCHANGED <<batchParams, all_employees, main_status, out_file>>
    /\ UNCHANGED exceptBatch

\* One iteration of the loop of assign_communication_styles_in_batches.
assign_communication_styles_in_batches ==
    /\ phase = 3
    /\ orch_status = "running"
    /\ batch_num < TotalBatches(Len(employees), batch_size)
    /\ LET bn == batch_num + 1
           batch_employees == BatchEmployees(employees, bn, batch_size)
           universe == generate_communication_style_universe
       IN
       /\ batches_sent' = Append(batches_sent, batch_employees)
       /\ batch_num' = bn
       /\ \E response_data \in BatchResponses(StyleSamples,
                                              batch_employees) :
            IF response_data.kind = "None"
            THEN \* `if response_data is None: ... continue`
                 /\ failed_batches' = failed_batches \cup {bn}
                 /\ UNCHANGED <<assignments, last_merge>>
            ELSE LET batch_assignments ==
                         IF response_data.kind = "other" THEN <<>>
                         ELSE response_data.items
                     mismatch ==
                         IF Len(batch_assignments) # Len(batch_employees)
                         THEN 1 ELSE 0
                     m == MergeStyles(
                            [map |-> assignments, overwritten |-> 0,
                             warnings |-> mismatch],
                            batch_assignments, universe)
                 IN /\ assignments' = m.map
                    /\ last_merge' = MergeRecord(Len(batch_employees),
                                                 Len(batch_assignments),
                                                 assignments, m)
                    /\ UNCHANGED failed_batches
    /\ UNCHANGED <<batchParams, all_employees, orch_status, main_status,
                   out_file>>
    /\ UNCHANGED exceptBatch

\* The loop of an orchestrator is over: `return assignments`
\* (`return all_employees` in phase 1).
orchestration_returns ==
    /\ phase \in {1, 2, 3}
    /\ orch_status = "running"
    /\ batch_num = TotalBatches(IF phase = 1 THEN TOTAL_EMPLOYEES
                                ELSE Len(employees), batch_size)
    /\ orch_status' = "done"
    /\ UNCHANGED <<batchParams, all_employees, batch_num, assignments,
                   batches_sent, failed_batches, last_merge, main_status,
                   out_file>>
    /\ UNCHANGED exceptBatch

\* `not employees` / `not assignments` in main: the orchestrator's value is
\* None after an abort, else the collection it built.
\* Faulty variant: the partial collection survives an abort.
MutIsFalsy(status, result) == DOMAIN result = {}
IsFalsy(status, result) == status = "aborted" \/ DOMAIN result = {}

\* The rows a phase writes: each employee's merged value, where it has one.
Rows(emps, map) ==
    [n \in {emps[i] : i \in DOMAIN emps} \cap DOMAIN map |-> map[n]]

\* main of 2_assign_hardskill.py after assign_skills_in_batches returned:
\* `if not assignments: return 1`, merge, validate (warnings only), write.
main_2 ==
    /\ phase = 2
    /\ main_status = "running"
    /\ orch_status \in {"done", "aborted"}
    /\ IF IsFalsy(orch_status, assignments)
       THEN /\ main_status' = "exit_1"
            /\ UNCHANGED out_file
       ELSE \E saved \in BOOLEAN :       \* wb.save may raise
              IF saved
              THEN /\ out_file' = [written |-> TRUE,
                                   rows |-> Rows(employees, assignments)]
                   /\ main_status' = "exit_0"
              ELSE /\ main_status' = "exit_1"
                   /\ UNCHANGED out_file
    /\ UNCHANGED <<batchParams, all_employees, batch_num, assignments,
                   batches_sent, failed_batches, last_merge, orch_status>>
    /\ UNCHANGED exceptBatch

\* main of 3_assign_communicationstyle.py after the orchestrator returned:
\* `if not assignments: sys.exit(1)`, then save_results, whose failed
\* to_excel is only printed.
main_3 ==
    /\ phase = 3
    /\ main_status = "running"
    /\ orch_status = "done"
    /\ IF IsFalsy(orch_status, assignments)
       THEN /\ main_status' = "exit_1"
            /\ UNCHANGED out_file
       ELSE /\ main_status' = "exit_0"
            /\ \E saved \in BOOLEAN :    \* df.to_excel may raise
                 out_file' = IF saved
                             THEN [written |-> TRUE,
                                   rows |-> Rows(employees, assignments)]
                             ELSE out_file
    /\ UNCHANGED <<batchParams, all_employees, batch_num, assignments,
                   batches_sent, failed_batches, last_merge, orch_status>>
    /\ UNCHANGED exceptBatch

----------------------------------------------------------------------------
(* Phase 1: employee generation in batches *)

TOP_LEADER_COUNT == 1
TEAM_LEADER_COUNT == 7
STRICT_VALIDATION == TRUE

\* Configurations explored: the smallest totals validate_config accepts
\* (TOP_LEADER_COUNT + TEAM_LEADER_COUNT < TOTAL_EMPLOYEES).
TotalEmployeesSamples ==
    {TOP_LEADER_COUNT + TEAM_LEADER_COUNT + 1,
     TOP_LEADER_COUNT + TEAM_LEADER_COUNT + 2}

\* batch_size arguments explored: the 20 main passes, and one that needs
\* several batches for the totals above.
GenerateBatchSizes == {4, 20}

\* first_batch_size of generate_employee_data_in_batches, for a
\* configuration with `top` top leaders and `team` team leaders
first_batch_size(top, team, b, total) ==
    LET size == top + team + (b - 8)
    IN IF size > total THEN total ELSE size

\* first_batch_size under the configuration of the repository
FirstBatchSize(b, total) ==
    first_batch_size(TOP_LEADER_COUNT, TEAM_LEADER_COUNT, b, total)

\* current_batch_size of batch bn, given the employees generated so far
CurrentBatchSize(bn, b, total, generated) ==
    IF bn = 1 THEN FirstBatchSize(b, total)
    ELSE Min(b, total - generated)

\* What call_gpt5 hands the phase-1 orchestrator: None, an object without
\* "employees", or one with a list of k employees.  An employee is
\* represented by the number of the batch that generated it.
EmployeeResponses(requested) ==
    {[kind |-> "None", count |-> 0], [kind |-> "other", count |-> 0]}
      \cup {[kind |-> "employees", count |-> k] : k \in 0..(requested + 1)}

\* One iteration of the loop of generate_employee_data_in_batches.
generate_employee_data_in_batches ==
    /\ phase = 1
    /\ orch_status = "running"
    /\ batch_num < TotalBatches(TOTAL_EMPLOYEES, batch_size)
    /\ LET bn == batch_num + 1
           current_batch_size ==
               CurrentBatchSize(bn, batch_size, TOTAL_EMPLOYEES,
                                Len(all_employees))
       IN
       IF current_batch_size <= 0
       THEN \* `break`, then `return all_employees`
            /\ orch_status' = "done"
            /\ UNCHANGED <<batch_num, all_employees, batches_sent,
                           failed_batches, last_merge>>
       ELSE
       /\ batches_sent' = Append(batches_sent,
              [i \in 1..current_batch_size |-> Len(all_employees) + i])
       /\ \E response_data \in EmployeeResponses(current_batch_size) :
            IF response_data.kind = "None"
            THEN \* `if not response_data: return None`
                 /\ orch_status' = "aborted"
                 /\ failed_batches' = failed_batches \cup {bn}
                 /\ UNCHANGED <<batch_num, all_employees, last_merge>>
            ELSE IF response_data.kind = "other"
            THEN \* `if "employees" not in response_data: return None`
                 /\ orch_status' = "aborted"
                 /\ UNCHANGED <<batch_num, all_employees, last_merge,
                                failed_batches>>
            ELSE /\ all_employees' = all_employees \o
                                       [i \in 1..response_data.count |-> bn]
                 /\ last_merge' =
                      [requested |-> current_batch_size,
                       received |-> response_data.count,
                       added |-> response_data.count,
                       overwritten |-> 0,
                       warnings |-> IF response_data.count
                                         # current_batch_size
                                    THEN 1 ELSE 0]
                 /\ batch_num' = bn
                 /\ UNCHANGED <<orch_status, failed_batches>>
    /\ UNCHANGED <<batchParams, assignments, main_status, out_file>>
    /\ UNCHANGED exceptBatch

\* main of 1_generate_file.py after generate_employee_data_in_batches
\* returned: `if not employees: return 1`, add ids, validate, repair
\* duplicate names when they are the only error, write the spreadsheet.
\* The content of an employee record is not part of the state, so the
\* findings of validate_employee_data about names, ranks, teams and fields
\* are drawn; its count check is computed.
main_1 ==
    /\ phase = 1
    /\ main_status = "running"
    /\ orch_status \in {"done", "aborted"}
    /\ IF IsFalsy(orch_status, all_employees)
       THEN /\ main_status' = "exit_1"
            /\ UNCHANGED out_file
       ELSE \E name_duplicates \in BOOLEAN, content_errors \in BOOLEAN,
               repaired \in BOOLEAN, success \in BOOLEAN :
              LET count_error == Len(all_employees) # TOTAL_EMPLOYEES
                  other_errors == count_error \/ content_errors
                  is_valid == ~name_duplicates /\ ~other_errors
                  goes_on ==
                      \/ is_valid
                      \/ name_duplicates /\ ~other_errors /\ repaired
                      \/ ~(name_duplicates /\ ~other_errors)
                           /\ ~STRICT_VALIDATION
              IN IF goes_on /\ success
                 THEN /\ out_file' = [written |-> TRUE,
                                      rows |-> all_employees]
                      /\ main_status' = "exit_0"
                 ELSE /\ main_status' = "exit_1"
                      /\ UNCHANGED out_file
    /\ UNCHANGED <<batchParams, all_employees, batch_num, assignments,
                   batches_sent, failed_batches, last_merge, orch_status>>
    /\ UNCHANGED exceptBatch

IdleCall ==
    /\ caller = "none"
    /\ max_retries = 1
    /\ attempt = 0
    /\ requests = 0
    /\ call_log = <<>>
    /\ call_status = "idle"
    /\ call_result = NoData
    /\ call_error = NoError

InitBatch ==
    /\ phase \in {1, 2, 3}
    /\ IF phase = 1
       THEN /\ TOTAL_EMPLOYEES \in TotalEmployeesSamples
            /\ employees = <<>>
            /\ batch_size \in GenerateBatchSizes
       ELSE /\ TOTAL_EMPLOYEES = 0
            /\ \E n \in 0..MaxEmployees : employees = [i \in 1..n |-> i]
            /\ batch_size \in 1..MaxBatchSize
    /\ all_employees = <<>>
    /\ batch_num = 0
    /\ assignments = <<>>
    /\ batches_sent = <<>>
    /\ failed_batches = {}
    /\ last_merge = [requested |-> 0, received |-> 0, added |-> 0,
                     overwritten |-> 0, warnings |-> 0]
    /\ orch_status = "running"
    /\ main_status = "running"
    /\ out_file = [written |-> FALSE, rows |-> <<>>]
    /\ IdleCall
    /\ IdleTimeline
    /\ IdleDriver
    /\ IdlePhase4
    /\ IdleRecords
    /\ IdleFunctions

NextBatch ==
    \/ generate_employee_data_in_batches
    \/ main_1
    \/ assign_skills_in_batches
    \/ assign_communication_styles_in_batches
    \/ orchestration_returns
    \/ main_2
    \/ main_3

SpecBatch == InitBatch /\ [][NextBatch]_vars

----------------------------------------------------------------------------
(* Claims about the batch phases *)

\* ceil(n / b), not computed the way the code computes total_batches.
Ceil(n, b) == CHOOSE k \in 0..n : k * b >= n /\ (k = 0 \/ (k - 1) * b < n)

RECURSIVE Concat(_)
Concat(ss) == IF ss = <<>> THEN <<>> ELSE Head(ss) \o Concat(Tail(ss))

IsPrefix(p, q) == Len(p) <= Len(q) /\ p = SubSeq(q, 1, Len(p))

C4_ContiguousSlices ==
    phase \in {2, 3} =>
      LET n == Len(employees)
          total == Ceil(n, batch_size)
      IN /\ Len(batches_sent) <= total
         /\ \A i \in DOMAIN batches_sent :
               /\ Len(batches_sent[i]) >= 1
               /\ Len(batches_sent[i]) <= batch_size
               /\ i < total => Len(batches_sent[i]) = batch_size
         /\ IsPrefix(Concat(batches_sent), employees)
         /\ orch_status = "done" =>
               /\ Len(batches_sent) = total
               /\ Concat(batches_sent) = employees

C4_Witness ==
    /\ phase = 3
    /\ orch_status = "done"
    /\ batch_size = 2
    /\ batches_sent = << <<1, 2>>, <<3>> >>

\* C5: a parsed batch of N requested items adds at most N entries to the
\* merged map, and no entry is overwritten by a later item with the same
\* key unless a warning is logged.
C5_BoundedMergeNoSilentOverwrite ==
    phase \in {2, 3} =>
      /\ last_merge.added <= last_merge.requested
      /\ last_merge.overwritten > 0 => last_merge.warnings > 0

----------------------------------------------------------------------------
(* Phase 5: dates *)

\* A JSON value of a "deadline" key: a string, or something that is not a
\* string (the number 20250601).
Str(text) == [type |-> "str", text |-> text]
NotAString == [type |-> "int", text |-> "20250601"]

\* config.TIMELINE_START_DATE = "2025-01-01", TIMELINE_END_DATE = "2025-12-31"
TIMELINE_START_DATE == "2025-01-01"
TIMELINE_END_DATE == "2025-12-31"

\* The characters of the strings that occur as deadlines.
Chars(text) ==
    CASE text = "2024-12-31" -> <<"2", "0", "2", "4", "-", "1", "2", "-", "3", "1">>
      [] text = "2025-01-01" -> <<"2", "0", "2", "5", "-", "0", "1", "-", "0", "1">>
      [] text = "2025-02-30" -> <<"2", "0", "2", "5", "-", "0", "2", "-", "3", "0">>
      [] text = "2025-06-30" -> <<"2", "0", "2", "5", "-", "0", "6", "-", "3", "0">>
      [] text = "2025-12-31" -> <<"2", "0", "2", "5", "-", "1", "2", "-", "3", "1">>
      [] text = "2026-01-01" -> <<"2", "0", "2", "6", "-", "0", "1", "-", "0", "1">>
      [] text = "" -> <<>>

DigitChars == <<"0", "1", "2", "3", "4", "5", "6", "7", "8", "9">>
IsDigit(c) == \E i \in DOMAIN DigitChars : DigitChars[i] = c
DigitVal(c) == (CHOOSE i \in DOMAIN DigitChars : DigitChars[i] = c) - 1

RECURSIVE Number(_)
Number(cs) ==
    IF cs = <<>> THEN 0
    ELSE Number(SubSeq(cs, 1, Len(cs) - 1)) * 10 + DigitVal(cs[Len(cs)])

\* The group strptime matches for %m: 1[0-2]|0[1-9]|[1-9]
MatchesMonth(cs) ==
    \/ Len(cs) = 2 /\ cs[1] = "1" /\ cs[2] \in {"0", "1", "2"}
    \/ Len(cs) = 2 /\ cs[1] = "0" /\ IsDigit(cs[2]) /\ cs[2] # "0"
    \/ Len(cs) = 1 /\ IsDigit(cs[1]) /\ cs[1] # "0"

\* The group strptime matches for %d: 3[0-1]|[1-2]\d|0[1-9]|[1-9]| [1-9]
MatchesDay(cs) ==
    \/ Len(cs) = 2 /\ cs[1] = "3" /\ cs[2] \in {"0", "1"}
    \/ Len(cs) = 2 /\ cs[1] \in {"1", "2"} /\ IsDigit(cs[2])
    \/ Len(cs) = 2 /\ cs[1] \in {"0", " "} /\ IsDigit(cs[2]) /\ cs[2] # "0"
    \/ Len(cs) = 1 /\ IsDigit(cs[1]) /\ cs[1] # "0"

IsLeap(y) == y % 4 = 0 /\ (y % 100 # 0 \/ y % 400 = 0)

DaysInMonth(y, m) ==
    IF m = 2 THEN (IF IsLeap(y) THEN 29 ELSE 28)
    ELSE IF m \in {4, 6, 9, 11} THEN 30 ELSE 31

\* datetime.strptime(text, "%Y-%m-%d"): ok = FALSE stands for ValueError;
\* date orders the datetimes it returns.
strptime(text) ==
    LET chars == Chars(text)
        n == Len(chars)
        bad == [ok |-> FALSE, date |-> 0]
    IN IF n < 8 \/ n > 10 THEN bad
       ELSE IF ~(\A i \in 1..4 : IsDigit(chars[i])) \/ chars[5] # "-" THEN bad
       ELSE LET k == IF chars[7] = "-" THEN 1 ELSE 2
                month == SubSeq(chars, 6, 5 + k)
                day == SubSeq(chars, 7 + k, n)
            IN IF chars[6 + k] # "-" \/ ~MatchesMonth(month)
                    \/ ~MatchesDay(day)
               THEN bad
               ELSE LET y == Number(SubSeq(chars, 1, 4))
                        m == Number(month)
                        d == Number(SelectSeq(day, IsDigit))
                    IN IF y < 1 \/ d > DaysInMonth(y, m) THEN bad
                       ELSE [ok |-> TRUE, date |-> y * 10000 + m * 100 + d]

----------------------------------------------------------------------------
(* Phase 5: validate_timeline and apply_timeline_to_project *)

\* dict.get(key) is None / key in dict
Has(d, key) == key \in DOMAIN d

\* Python truthiness of task.get('deadline') and of task.get('subtask_id')
TruthyDeadline(task) ==
    Has(task, "deadline") /\ ~(task.deadline.type = "str"
                                /\ task.deadline.text = "")
TruthyId(task) == Has(task, "subtask_id") /\ task.subtask_id # 0

\* `start <= deadline_date <= end`
\* Faulty variant: the upper end of the window is not compared.
MutWithinWindow(start, deadline_date, end) == start <= deadline_date
WithinWindow(start, deadline_date, end) ==
    start <= deadline_date /\ deadline_date <= end

ErrorEntry(kind, ids) == [kind |-> kind, ids |-> ids]

\* The loop over timeline_result['task_timeline'] of validate_timeline.
\* acc = [errors, assigned, raised]; raised = TRUE once strptime got a
\* deadline that is not a string (TypeError, which the loop does not catch).
RECURSIVE CheckTasks(_, _, _, _)
CheckTasks(tasks, acc, start_date, end_date) ==
    IF tasks = <<>> \/ acc.raised THEN acc
    ELSE
    LET task == Head(tasks)
        rest == Tail(tasks)
    IN
    IF ~Has(task, "subtask_id")
    THEN CheckTasks(rest,
           [acc EXCEPT !.errors = Append(@, ErrorEntry("no_subtask_id", {}))],
           start_date, end_date)
    ELSE
    LET task_id == task.subtask_id
        seen == [acc EXCEPT !.assigned = @ \cup {task_id}]
    IN
    IF ~TruthyDeadline(task)
    THEN CheckTasks(rest,
           [seen EXCEPT !.errors =
                           Append(@, ErrorEntry("no_deadline", {task_id}))],
           start_date, end_date)
    ELSE IF task.deadline.type # "str"
    THEN [seen EXCEPT !.raised = TRUE]
    ELSE
    LET deadline_date == strptime(task.deadline.text)
        start == strptime(start_date)
        end == strptime(end_date)
    IN
    IF ~deadline_date.ok \/ ~start.ok \/ ~end.ok
    THEN CheckTasks(rest,
           [seen EXCEPT !.errors =
                           Append(@, ErrorEntry("bad_format", {task_id}))],
           start_date, end_date)
    ELSE IF ~WithinWindow(start.date, deadline_date.date, end.date)
    THEN CheckTasks(rest,
           [seen EXCEPT !.errors =
                           Append(@, ErrorEntry("out_of_range", {task_id}))],
           start_date, end_date)
    ELSE CheckTasks(rest, seen, start_date, end_date)

Raised(type) == [kind |-> "raised", type |-> type]

\* validate_timeline(project_data, timeline_result, start_date, end_date).
\* subtasks: the subtasks of all members of project_data, in document order.
validate_timeline(subtasks, task_timeline, start_date, end_date) ==
    LET total_subtasks == Len(subtasks)
        assigned_tasks == Len(task_timeline)
        count_errors ==
            IF assigned_tasks # total_subtasks
            THEN <<ErrorEntry("count_mismatch", {})>> ELSE <<>>
    IN
    IF \E i \in DOMAIN subtasks : ~Has(subtasks[i], "subtask_id")
    THEN Raised("KeyError")        \* subtask['subtask_id']
    ELSE
    LET task_ids_in_project ==
            {subtasks[i].subtask_id : i \in DOMAIN subtasks}
        checked == CheckTasks(task_timeline,
                              [errors |-> count_errors, assigned |-> {},
                               raised |-> FALSE],
                              start_date, end_date)
        missing_tasks == task_ids_in_project \ checked.assigned
        extra_tasks == checked.assigned \ task_ids_in_project
        errors == IF missing_tasks # {}
                  THEN Append(checked.errors,
                              ErrorEntry("missing", missing_tasks))
                  ELSE checked.errors
        warnings == IF extra_tasks # {}
                    THEN <<ErrorEntry("extra", extra_tasks)>> ELSE <<>>
    IN
    IF checked.raised THEN Raised("TypeError")
    ELSE [kind |-> "report", valid |-> Len(errors) = 0, errors |-> errors,
          warnings |-> warnings, total_subtasks |-> total_subtasks,
          assigned_tasks |-> assigned_tasks]

\* deadline_map of apply_timeline_to_project:
\*   if task_id and deadline: deadline_map[task_id] = deadline
RECURSIVE DeadlineMap(_, _)
DeadlineMap(tasks, map) ==
    IF tasks = <<>> THEN map
    ELSE LET task == Head(tasks)
         IN DeadlineMap(Tail(tasks),
                        IF TruthyId(task) /\ TruthyDeadline(task)
                        THEN DictSet(map, task.subtask_id, task.deadline)
                        ELSE map)

\* apply_timeline_to_project(project_data, timeline_result)
apply_timeline_to_project(subtasks, task_timeline) ==
    LET deadline_map == DeadlineMap(task_timeline, <<>>)
    IN [i \in DOMAIN subtasks |->
          IF subtasks[i].subtask_id \in DOMAIN deadline_map
          THEN DictSet(subtasks[i], "deadline",
                       deadline_map[subtasks[i].subtask_id])
          ELSE subtasks[i]]

----------------------------------------------------------------------------
(* Phase 5: process_single_project *)

\* The phase order the timeline prompt states, earliest first.
PhaseOrder ==
    <<"Strategy & Planning", "Design & Architecture",
      "Development & Implementation", "Testing & Optimization",
      "Deployment & Launch">>

\* Deadline strings a response or a stored project may carry.
DayBeforeStart == "2024-12-31"
DayAfterEnd == "2026-01-01"
NoSuchDay == "2025-02-30"
MidYear == "2025-06-30"

\* Subtasks a stored project may hold: ids 1 and 2 in the first and the
\* last phase, one that already has a deadline, one without subtask_id.
SubtaskSamples ==
    [subtask_id : {1, 2}, phase : {PhaseOrder[1], PhaseOrder[5]}]
      \cup {[subtask_id |-> 1, phase |-> PhaseOrder[1],
             deadline |-> Str(MidYear)],
            [phase |-> PhaseOrder[1]]}

\* Entries a task_timeline may hold.
TaskSamples ==
    {[subtask_id |-> 1]}
      \cup [subtask_id : {1},
            deadline : {Str(DayBeforeStart), Str(TIMELINE_START_DATE),
                        Str(TIMELINE_END_DATE), Str(DayAfterEnd),
                        Str(NoSuchDay), NotAString}]
      \cup [subtask_id : {2},
            deadline : {Str(TIMELINE_START_DATE), Str(TIMELINE_END_DATE)}]
      \cup {[deadline |-> Str(TIMELINE_START_DATE)],
            [subtask_id |-> 0, deadline |-> Str(TIMELINE_START_DATE)],
            [subtask_id |-> 3, deadline |-> Str(TIMELINE_START_DATE)]}

\* What call_gpt_for_timeline gives process_single_project: the parsed
\* object, which has a task_timeline, or the exception of its last attempt.
TimelineResponses ==
    {[kind |-> "raised"]}
      \cup {[kind |-> "dict", task_timeline |-> t] :
              t \in SeqsUpTo(TaskSamples, MaxTimeline)}

\* `if not validation['valid']: raise ValueError`
\* Faulty variant: the report is not looked at.
MutValidationFailed(v) == FALSE
ValidationFailed(v) == ~v.valid

\* process_single_project(project_path, output_dir) once the file is loaded:
\* call the model, validate, raise on an invalid timeline, apply, save.
\* The result tells how it ended, the steps it ran and the file it leaves.
ProcessSingleProject(project_data, response) ==
    IF response.kind = "raised"
    THEN [outcome |-> "CallRaised", steps |-> <<"load", "call">>,
          validation |-> [kind |-> "none"], file |-> project_data]
    ELSE
    LET v == validate_timeline(project_data, response.task_timeline,
                               TIMELINE_START_DATE, TIMELINE_END_DATE)
    IN  IF v.kind = "raised"
        THEN [outcome |-> v.type, steps |-> <<"load", "call", "validate">>,
              validation |-> v, file |-> project_data]
        ELSE IF ValidationFailed(v)
        THEN [outcome |-> "ValueError",
              steps |-> <<"load", "call", "validate">>,
              validation |-> v, file |-> project_data]
        ELSE [outcome |-> "success",
              steps |-> <<"load", "call", "validate", "apply", "save">>,
              validation |-> v,
              file |-> apply_timeline_to_project(project_data,
                                                 response.task_timeline)]

process_single_project ==
    /\ outcome = "pending"
    /\ original_file' = original_file
    /\ \E response \in TimelineResponses :
       \E r \in {ProcessSingleProject(project_file, response)} :
         /\ timeline_result' = response
         /\ validation' = r.validation
         /\ steps' = r.steps
         /\ outcome' = r.outcome
         /\ project_file' = r.file
    /\ UNCHANGED exceptTimeline

InitTimeline ==
    /\ project_file \in SeqsUpTo(SubtaskSamples, MaxSubtasks)
    /\ original_file = project_file
    /\ timeline_result = NoTimeline
    /\ validation = [kind |-> "none"]
    /\ steps = <<>>
    /\ outcome = "pending"
    /\ IdleCall
    /\ IdleBatch
    /\ IdleDriver
    /\ IdlePhase4
    /\ IdleRecords
    /\ IdleFunctions

NextTimeline == process_single_project

SpecTimeline == InitTimeline /\ [][NextTimeline]_vars

----------------------------------------------------------------------------
(* Claims about the timeline phase *)

\* The response's task_timeline, once process_single_project has one.
TaskTimeline ==
    IF timeline_result.kind = "dict" THEN timeline_result.task_timeline
    ELSE <<>>

\* Ids as the claims speak of them.
ProjectIds ==
    {original_file[i].subtask_id :
        i \in {j \in DOMAIN original_file : Has(original_file[j], "subtask_id")}}
ResponseIds ==
    {TaskTimeline[k].subtask_id :
        k \in {j \in DOMAIN TaskTimeline : Has(TaskTimeline[j], "subtask_id")}}

PhaseIndex(p) == CHOOSE n \in DOMAIN PhaseOrder : PhaseOrder[n] = p

\* A deadline value that is a date inside the configured window.
InsideWindow(v) ==
    /\ v.type = "str"
    /\ strptime(v.text).ok
    /\ strptime(TIMELINE_START_DATE).date <= strptime(v.text).date
    /\ strptime(v.text).date <= strptime(TIMELINE_END_DATE).date

\* C6: when validate_timeline reports valid = False, process_single_project
\* raises before apply_timeline_to_project and save_project_file run; the
\* project file is left as it was, no subtask gains or changes a deadline.
C6_InvalidTimelineNeverWritten ==
    (validation.kind = "report" /\ ~validation.valid) =>
        /\ outcome = "ValueError"
        /\ steps = <<"load", "call", "validate">>
        /\ project_file = original_file

C6_Witness ==
    /\ outcome = "ValueError"
    /\ original_file = <<[subtask_id |-> 1, phase |-> PhaseOrder[1],
                          deadline |-> Str(MidYear)]>>
    /\ TaskTimeline = <<[subtask_id |-> 1, deadline |-> Str(DayAfterEnd)]>>
    /\ project_file[1].deadline = Str(MidYear)

\* C7: whenever a subtask id of the project is absent from the response's
\* task_timeline, validate_timeline returns valid = False and reports as
\* missing exactly the project's ids minus the response's ids.
C7_MissingIdsReported ==
    (timeline_result.kind = "dict" /\ ProjectIds \ ResponseIds # {}) =>
        /\ validation.kind = "report"
        /\ ~validation.valid
        /\ \E e \in DOMAIN validation.errors :
              validation.errors[e] =
                  ErrorEntry("missing", ProjectIds \ ResponseIds)

\* C8: if validate_timeline returns valid = True, every subtask id of the
\* project appears exactly once in the task_timeline, no id from outside
\* the project appears in it, and the warnings list is empty.
C8_ValidMeansOneEntryPerId ==
    (validation.kind = "report" /\ validation.valid) =>
        /\ \A i \in DOMAIN original_file :
              Cardinality({k \in DOMAIN TaskTimeline :
                             /\ Has(TaskTimeline[k], "subtask_id")
                             /\ TaskTimeline[k].subtask_id
                                  = original_file[i].subtask_id}) = 1
        /\ ResponseIds \subseteq ProjectIds
        /\ validation.warnings = <<>>

\* C9: every deadline the timeline phase sets on a subtask of a project it
\* writes lies inside the window: TIMELINE_START_DATE <= deadline <=
\* TIMELINE_END_DATE, bounds included.
C9_WrittenDeadlinesInsideWindow ==
    outcome = "success" =>
        \A i \in DOMAIN project_file :
            (\/ project_file[i] # original_file[i]
             \/ \E k \in DOMAIN TaskTimeline :
                   /\ TruthyId(TaskTimeline[k])
                   /\ TruthyDeadline(TaskTimeline[k])
                   /\ TaskTimeline[k].subtask_id = project_file[i].subtask_id)
            => /\ Has(project_file[i], "deadline")
               /\ InsideWindow(project_file[i].deadline)

C9_Witness ==
    /\ outcome = "success"
    /\ Len(project_file) = 2
    /\ ~Has(original_file[1], "deadline")
    /\ ~Has(original_file[2], "deadline")
    /\ project_file[1].deadline = Str(TIMELINE_END_DATE)
    /\ project_file[2].deadline = Str(TIMELINE_START_DATE)

\* C10: the timeline validation rejects (valid = False) every response that
\* gives a subtask of a later phase a deadline strictly before the deadline
\* of a subtask of an earlier phase.
C10_PhaseOrderEnforced ==
    (validation.kind = "report" /\ validation.valid) =>
        ~ \E i, j \in DOMAIN original_file, a, b \in DOMAIN TaskTimeline :
             /\ PhaseIndex(original_file[i].phase)
                  < PhaseIndex(original_file[j].phase)
             /\ TaskTimeline[a].subtask_id = original_file[i].subtask_id
             /\ TaskTimeline[b].subtask_id = original_file[j].subtask_id
             /\ strptime(TaskTimeline[b].deadline.text).date
                  < strptime(TaskTimeline[a].deadline.text).date

----------------------------------------------------------------------------
(* Phase 5 driver: main of 5_assign_timeline.py *)

MaxFiles == 2       \* project files found by the glob

\* Stems of the files found under projects/*/: two directories may hold
\* files of the same stem.
Stems == {"project_1", "project_2"}

\* Contents of a project file of the run: no subtask, one subtask, one
\* subtask without subtask_id; or a file json.load cannot read.
DriverFileSamples ==
    [stem : Stems, readable : {TRUE},
     subtasks : {<<>>,
                 <<[subtask_id |-> 1, phase |-> PhaseOrder[1]]>>,
                 <<[phase |-> PhaseOrder[1]]>>}]
      \cup [stem : Stems, readable : {FALSE}, subtasks : {<<>>}]

\* What call_gpt_for_timeline gives the driver's projects.
DriverResponses ==
    {[kind |-> "raised"],
     [kind |-> "dict", task_timeline |-> <<>>],
     [kind |-> "dict", task_timeline |->
        <<[subtask_id |-> 1, deadline |-> Str(MidYear)]>>],
     [kind |-> "dict", task_timeline |->
        <<[subtask_id |-> 1, deadline |-> Str(DayAfterEnd)]>>],
     [kind |-> "dict", task_timeline |->
        <<[subtask_id |-> 1, deadline |-> NotAString]>>]}

\* load_project_file, then the rest of process_single_project.
LoadAndProcess(file, response) ==
    IF ~file.readable
    THEN [outcome |-> "JSONDecodeError", steps |-> <<"load">>,
          validation |-> [kind |-> "none"], file |-> file.subtasks]
    ELSE ProcessSingleProject(file.subtasks, response)

\* The report process_single_project returns.
SuccessReport(file, r) ==
    [project_name |-> file.stem, success |-> TRUE,
     total_subtasks |-> Len(file.subtasks),
     assigned_tasks |-> r.validation.assigned_tasks]

\* `except Exception as e: project_reports.append({... 'success': False ...})`
\* Faulty variant: the failure is printed and no entry is appended.
MutAppendFailed(reports, file, e) == reports
AppendFailed(reports, file, e) ==
    Append(reports, [project_name |-> file.stem, success |-> FALSE,
                     error |-> e])

\* p.get('success')
Succeeded(p) == Has(p, "success") /\ p.success

RECURSIVE SumSubtasks(_)
SumSubtasks(reports) ==
    IF reports = <<>> THEN 0
    ELSE (IF Succeeded(Head(reports)) /\ Has(Head(reports), "total_subtasks")
          THEN Head(reports).total_subtasks ELSE 0)
         + SumSubtasks(Tail(reports))

generate_summary_report(reports) ==
    [written |-> TRUE,
     total_projects |-> Len(reports),
     projects |-> reports,
     total_tasks_processed |-> SumSubtasks(reports),
     successful_projects |->
        Cardinality({i \in DOMAIN reports : Succeeded(reports[i])}),
     failed_projects |->
        Cardinality({i \in DOMAIN reports : ~Succeeded(reports[i])})]

\* main up to the loop: `return` when the projects directory is missing or
\* holds no project file. A plain return ends the script with status 0.
main_5_start ==
    /\ main_5_status = "running"
    /\ main_5_status' =
         IF ~projects_dir_exists \/ project_files = <<>>
         THEN "exit_0" ELSE "looping"
    /\ UNCHANGED <<projects_dir_exists, project_files, project_reports,
                   raised_by, summary_report>>
    /\ UNCHANGED exceptDriver

\* One iteration of `for project_file in tqdm(project_files)`.
main_5_iteration ==
    /\ main_5_status = "looping"
    /\ Len(project_reports) < Len(project_files)
    /\ LET i == Len(raised_by) + 1
           file == project_files[i]
       IN  \E response \in DriverResponses :
           \E r \in {LoadAndProcess(file, response)} :
             /\ raised_by' = Append(raised_by, r.outcome)
             /\ project_files' =
                  [project_files EXCEPT ![i].subtasks = r.file]
             /\ project_reports' =
                  IF r.outcome = "success"
                  THEN Append(project_reports, SuccessReport(file, r))
                  ELSE AppendFailed(project_reports, file, r.outcome)
    /\ UNCHANGED <<projects_dir_exists, summary_report, main_5_status>>
    /\ UNCHANGED exceptDriver

\* After the loop: the summary report is written and main returns.
main_5_finish ==
    /\ main_5_status = "looping"
    /\ Len(raised_by) = Len(project_files)
    /\ summary_report' = generate_summary_report(project_reports)
    /\ main_5_status' = "exit_0"
    /\ UNCHANGED <<projects_dir_exists, project_files, project_reports,
                   raised_by>>
    /\ UNCHANGED exceptDriver

InitDriver ==
    /\ projects_dir_exists \in BOOLEAN
    /\ project_files \in
         IF projects_dir_exists THEN SeqsUpTo(DriverFileSamples, MaxFiles)
         ELSE {<<>>}
    /\ project_reports = <<>>
    /\ raised_by = <<>>
    /\ summary_report = NoSummary
    /\ main_5_status = "running"
    /\ IdleCall
    /\ IdleBatch
    /\ IdleTimeline
    /\ IdlePhase4
    /\ IdleRecords
    /\ IdleFunctions

NextDriver ==
    \/ main_5_start
    \/ main_5_iteration
    \/ main_5_finish

SpecDriver == InitDriver /\ [][NextDriver]_vars

----------------------------------------------------------------------------
(* Claims about the Phase 5 driver *)

\* C11: a project whose processing raises is recorded as a failed entry and
\* the files after it are still processed: the entries appended so far are
\* one per file handled, in file order, failed exactly where processing
\* raised; and the summary report, once written, has one entry per project
\* file, in processing order, with successful_projects + failed_projects
\* equal to the number of project files.
C11_OneEntryPerFileInOrder ==
    /\ Len(project_reports) = Len(raised_by)
    /\ Len(project_reports) <= Len(project_files)
    /\ \A i \in DOMAIN project_reports :
         /\ project_reports[i].project_name = project_files[i].stem
         /\ Succeeded(project_reports[i]) <=> raised_by[i] = "success"
    /\ summary_report.written =>
         /\ summary_report.projects = project_reports
         /\ Len(summary_report.projects) = Len(project_files)
         /\ summary_report.successful_projects
              + summary_report.failed_projects = Len(project_files)
         /\ summary_report.failed_projects =
              Cardinality({i \in DOMAIN raised_by :
                             raised_by[i] # "success"})

\* The first of two files raised, the second was processed and succeeded,
\* and the report is written.
C11_Witness ==
    /\ summary_report.written
    /\ Len(project_files) = 2
    /\ raised_by[1] # "success"
    /\ raised_by[2] = "success"

----------------------------------------------------------------------------
(* Phase 4: projects, teams, styles and tasks (4_generate_task.py) *)

\* valid_values of validate_communication_styles
valid_values ==
    [Formality |-> {"Formal", "Semi-formal", "Casual"},
     Verbosity |-> {"Detailed", "Moderate", "Concise"},
     Humor |-> {"Frequent", "Occasional", "Minimal"},
     Jargon_Usage |-> {"Technical", "Balanced", "Plain"},
     Emoji_Usage |-> {"Frequent", "Occasional", "Rare"},
     Directness |-> {"Direct", "Balanced", "Indirect"},
     Warmth |-> {"Warm", "Friendly", "Neutral"},
     Questioning_Style |-> {"Probing", "Clarifying", "Accepting"}]

\* Communication styles: the one the employee file holds, two vectors a
\* response may return, one with a value outside the vocabulary, and one
\* that holds a single dimension.
PoolStyle ==
    [Formality |-> "Formal", Verbosity |-> "Moderate", Humor |-> "Minimal",
     Jargon_Usage |-> "Balanced", Emoji_Usage |-> "Rare",
     Directness |-> "Direct", Warmth |-> "Neutral",
     Questioning_Style |-> "Clarifying"]
CasualStyle == [PoolStyle EXCEPT !.Formality = "Casual"]
WarmStyle == [PoolStyle EXCEPT !.Warmth = "Warm"]
OffVocabularyStyle == [PoolStyle EXCEPT !.Formality = "Relaxed"]
PartialStyle == [Formality |-> "Casual"]

\* The rows of the employee file (load_employees_data + employee_row_to_dict).
EmployeePool ==
    <<[user_name |-> "a", rank |-> 1, communication_style |-> PoolStyle],
      [user_name |-> "b", rank |-> 2, communication_style |-> PoolStyle],
      [user_name |-> "c", rank |-> 3, communication_style |-> PoolStyle]>>

\* A name no row of the employee file carries.
Stranger == "z"

Range(seq) == {seq[i] : i \in DOMAIN seq}

\* d.get(key, default)
Get(d, key, default) == IF Has(d, key) THEN d[key] ELSE default

\* m.get('user_name'): None when the key is absent
UserName(m) == Get(m, "user_name", "None")

Names(team) == {team[i].user_name : i \in DOMAIN team}

\* Faulty variant: the team is what the response says to keep.
MutTeamNames(member_adj) ==
    Range(Get(member_adj, "keep_members", <<>>))
\* all_names = keep_names | add_names
TeamNames(member_adj) ==
    Range(Get(member_adj, "keep_members", <<>>))
      \cup {UserName(m) : m \in Range(Get(member_adj, "add_members", <<>>))}

\* The rows of df whose Name is in all_names, in file order.
RowsNamed(df, all_names) ==
    LET Named(row) == row.user_name \in all_names
    IN  SelectSeq(df, Named)

build_team_from_adjustments(adjustments, df) ==
    RowsNamed(df, TeamNames(Get(adjustments, "member_adjustments", <<>>)))

\* config.SUBSEQUENT_TEAM_SIZE_RANGE, scaled to the three-row employee file.
SUBSEQUENT_TEAM_SIZE_RANGE == [min |-> 2, max |-> 3]

\* config.MIN_SUBTASKS_PER_MEMBER, scaled down.
MIN_SUBTASKS_PER_MEMBER == 2

CountRank(team, r) == Cardinality({i \in DOMAIN team : team[i].rank = r})

validate_team_constraints(team) ==
    /\ ~(CountRank(team, 1) < 1)
    /\ ~(CountRank(team, 2) < 1)
    /\ ~(Len(team) < SUBSEQUENT_TEAM_SIZE_RANGE.min)
    /\ ~(Len(team) > SUBSEQUENT_TEAM_SIZE_RANGE.max)

validate_communication_styles(team) ==
    \A i \in DOMAIN team :
      LET cs == Get(team[i], "communication_style", <<>>)
      IN  \A dimension \in DOMAIN valid_values :
            /\ Has(cs, dimension)
            /\ cs[dimension] \in valid_values[dimension]

\* Faulty variant: nobody is reported.
Mut_missing_members(task_assignments, team) == {}
\* missing_members = team_names - assigned_names
missing_members(task_assignments, team) ==
    LET team_names == Names(team)
        assigned_names == {UserName(a) : a \in Range(task_assignments)}
    IN  team_names \ assigned_names

validate_task_assignments(task_assignments, team) ==
    LET team_names == Names(team)
    IN  /\ missing_members(task_assignments, team) = {}
        /\ \A a \in Range(task_assignments) :
             /\ UserName(a) \in team_names
             /\ ~(Len(Get(a, "subtasks", <<>>)) < MIN_SUBTASKS_PER_MEMBER)

\* stage 1 after both calls returned: the new team and the adjustment
\* computed from it.
AdjustmentInfo(current_team, new_team) ==
    [members_added |-> Names(new_team) \ Names(current_team),
     members_removed |-> Names(current_team) \ Names(new_team),
     communication_style_adjusted |-> TRUE]

\* `if 'original_communication_style' not in member: member[...] = copy`
Snapshot(member) ==
    IF Has(member, "original_communication_style") THEN member
    ELSE [k \in DOMAIN member \cup {"original_communication_style"} |->
            IF k = "original_communication_style"
            THEN member.communication_style ELSE member[k]]

\* style_map of apply_style_adjustments: a later entry of a name replaces an
\* earlier one.
RECURSIVE StyleMap(_, _)
StyleMap(adjusted_styles, map) ==
    IF adjusted_styles = <<>> THEN map
    ELSE StyleMap(Tail(adjusted_styles),
                  DictSet(map, UserName(Head(adjusted_styles)),
                          Get(Head(adjusted_styles), "adjusted_style",
                              <<>>)))

\* Faulty variant: a member the response does not name gets an empty style.
Mut_apply_style_adjustments(team_members, adjustments) ==
    LET style_map == StyleMap(Get(adjustments, "adjusted_styles", <<>>),
                              <<>>)
    IN  [i \in DOMAIN team_members |->
           [team_members[i] EXCEPT !.communication_style =
              Get(style_map, team_members[i].user_name, <<>>)]]
apply_style_adjustments(team_members, adjustments) ==
    LET style_map == StyleMap(Get(adjustments, "adjusted_styles", <<>>),
                              <<>>)
    IN  [i \in DOMAIN team_members |->
           IF Has(style_map, team_members[i].user_name)
           THEN [team_members[i] EXCEPT !.communication_style =
                    style_map[team_members[i].user_name]]
           ELSE team_members[i]]

\* stage 2 after the call returned: snapshot every member, then apply.
Snapshots(team_members) ==
    [i \in DOMAIN team_members |-> Snapshot(team_members[i])]

\* user_to_tasks of build_complete_project_data
RECURSIVE UserToTasks(_, _)
UserToTasks(task_assignments, map) ==
    IF task_assignments = <<>> THEN map
    ELSE UserToTasks(Tail(task_assignments),
                     DictSet(map, UserName(Head(task_assignments)),
                             Get(Head(task_assignments), "subtasks", <<>>)))

RECURSIVE SumLen(_)
SumLen(ss) == IF ss = <<>> THEN 0 ELSE Len(Head(ss)) + SumLen(Tail(ss))

build_complete_project_data(project_number, team_members, task_assignments, adjustments_made) ==
    LET user_to_tasks == UserToTasks(task_assignments, <<>>)
        members_with_tasks ==
          [i \in DOMAIN team_members |->
             [k \in DOMAIN team_members[i] \cup {"subtasks"} |->
                IF k = "subtasks"
                THEN Get(user_to_tasks, team_members[i].user_name, <<>>)
                ELSE team_members[i][k]]]
    IN  [project_number |-> project_number,
         members |-> members_with_tasks,
         total_subtasks |->
            SumLen([i \in DOMAIN members_with_tasks |->
                      members_with_tasks[i].subtasks]),
         adjustments_made |-> adjustments_made]

\* What call_gpt5_phase4 hands back: None, or the parsed object.
NoneResult == [kind |-> "None"]
NotCalled == [kind |-> "not called"]

\* Faulty variant: the stage goes on with whatever came back.
MutNotResult(result) == FALSE
\* `if not result`: None, and a parsed object without any key
NotResult(result) == result.kind = "None" \/ DOMAIN result = {"kind"}

GenerationResponses ==
    {NoneResult, [kind |-> "dict", project_topic |-> "topic"]}

AdjustmentResponses ==
    {NoneResult, [kind |-> "dict", reasoning |-> "text"]}
      \cup {[kind |-> "dict",
             member_adjustments |-> [keep_members |-> k, add_members |-> a]] :
              k \in {<<>>, <<"b">>, <<"a", "b">>},
              a \in {<<>>, <<[user_name |-> "c"]>>,
                     <<[user_name |-> Stranger]>>}}

StyleResponses ==
    {NoneResult}
      \cup {[kind |-> "dict", adjusted_styles |-> st] :
              st \in {<<>>,
                      <<[user_name |-> "a", adjusted_style |-> CasualStyle]>>,
                      <<[user_name |-> "a", adjusted_style |-> CasualStyle],
                        [user_name |-> "b", adjusted_style |-> WarmStyle]>>,
                      <<[user_name |-> "b",
                         adjusted_style |-> OffVocabularyStyle],
                        [user_name |-> Stranger,
                         adjusted_style |-> PartialStyle]>>}}

\* Subtasks as a response words them: without an id (the prompt asks for
\* none), or with the ids the model chose.
Unnumbered == <<[description |-> "first"], [description |-> "second"]>>
Numbered(n) == <<[subtask_id |-> n], [subtask_id |-> n + 1]>>

TaskResponses ==
    {NoneResult, [kind |-> "dict"]}
      \cup {[kind |-> "dict", task_assignments |-> t] :
              t \in {<<>>,
                     <<[user_name |-> "a", subtasks |-> Unnumbered],
                       [user_name |-> "b", subtasks |-> Unnumbered]>>,
                     <<[user_name |-> "a", subtasks |-> Numbered(1)],
                       [user_name |-> "b", subtasks |-> Numbered(3)],
                       [user_name |-> "c", subtasks |-> Numbered(5)]>>,
                     <<[user_name |-> "a", subtasks |-> Numbered(7)],
                       [user_name |-> "b", subtasks |-> Numbered(7)],
                       [user_name |-> "c", subtasks |-> <<>>]>>}}

Verdict(passed) == IF passed THEN "passed" ELSE "failed"

\* `if not validate_...(...): print("... 但继续执行")`: a failed check is
\* printed and the stage goes on.
\* Faulty variant: a failed check ends the stage.
MutFatal(verdict) == verdict = "failed"
Fatal(verdict) == FALSE

\* What the generation of a project is given and does, before any call.
StageStart(project_number, current_team) ==
    [project_number |-> project_number,
     current_team |-> current_team,
     result_gen |-> NotCalled, result_adj |-> NotCalled,
     result_style |-> NotCalled, result_tasks |-> NotCalled,
     new_team |-> <<>>, updated_team |-> <<>>,
     team_check |-> "not run", style_check |-> "not run",
     task_check |-> "not run",
     built |-> FALSE]

\* Teams initialize_first_team may draw.
FirstTeams ==
    {SubSeq(EmployeePool, 1, 2), EmployeePool}

\* generate_project_1(team_members): the log of the stages and, when built,
\* the project data that was saved.
generate_project_1(team_members, result_gen, result_tasks) ==
    LET start == [StageStart(1, <<>>) EXCEPT !.result_gen = result_gen]
        team == Snapshots(team_members)
        task_assignments == Get(result_tasks, "task_assignments", <<>>)
        checked == [start EXCEPT
                      !.result_tasks = result_tasks,
                      !.new_team = team_members,
                      !.updated_team = team,
                      !.task_check =
                         Verdict(validate_task_assignments(
                                   task_assignments, team))]
    IN  IF NotResult(result_gen) THEN [log |-> start]
        ELSE IF NotResult(result_tasks)
        THEN [log |-> [start EXCEPT !.result_tasks = result_tasks]]
        ELSE IF Fatal(checked.task_check) THEN [log |-> checked]
        ELSE [log |-> [checked EXCEPT !.built = TRUE],
              project |->
                 build_complete_project_data(1, team, task_assignments,
                    [members_added |-> {}, members_removed |-> {},
                     communication_style_adjusted |-> FALSE])]

\* generate_next_project(project_number, previous_projects, df) with its
\* three stages.
generate_next_project(project_number, previous_projects, df, result_gen, result_adj, result_style, result_tasks) ==
    LET current_team == previous_projects[Len(previous_projects)].members
        start == [StageStart(project_number, current_team) EXCEPT
                    !.result_gen = result_gen]
        new_team == build_team_from_adjustments(result_adj, df)
        adjustment_info == AdjustmentInfo(current_team, new_team)
        stage1 == [start EXCEPT !.result_adj = result_adj,
                                !.new_team = new_team]
        checked == [stage1 EXCEPT
                      !.team_check =
                         Verdict(validate_team_constraints(new_team))]
        updated_team ==
            apply_style_adjustments(Snapshots(new_team), result_style)
        stage2 == [checked EXCEPT
                     !.result_style = result_style,
                     !.updated_team = updated_team,
                     !.style_check =
                        Verdict(validate_communication_styles(updated_team))]
        task_assignments == Get(result_tasks, "task_assignments", <<>>)
        stage3 == [stage2 EXCEPT
                     !.result_tasks = result_tasks,
                     !.task_check =
                        Verdict(validate_task_assignments(
                                  task_assignments, updated_team))]
    IN  IF NotResult(result_gen) THEN [log |-> start]
        ELSE IF NotResult(result_adj)
        THEN [log |-> [start EXCEPT !.result_adj = result_adj]]
        ELSE IF new_team = <<>> THEN [log |-> stage1]
        ELSE IF Fatal(checked.team_check) THEN [log |-> checked]
        ELSE IF NotResult(result_style)
        THEN [log |-> [checked EXCEPT !.result_style = result_style]]
        ELSE IF Fatal(stage2.style_check) THEN [log |-> stage2]
        ELSE IF NotResult(result_tasks)
        THEN [log |-> [stage2 EXCEPT !.result_tasks = result_tasks]]
        ELSE IF Fatal(stage3.task_check) THEN [log |-> stage3]
        ELSE [log |-> [stage3 EXCEPT !.built = TRUE],
              project |->
                 build_complete_project_data(project_number, updated_team,
                    task_assignments, adjustment_info)]

\* config.NUM_PROJECTS
NumProjectsSamples == {1, 2, 3}

\* `if not project_1: return 1` and `if not project: return 1`
\* Faulty variant: the project is given up and the run goes on.
MutProjectMissing(built) == FALSE
ProjectMissing(built) == ~built

\* main up to the loop: load the employees, draw the first team, generate
\* and save project 1; `return 1` when that fails.
main_4_project_1 ==
    /\ main_4_status = "running"
    /\ all_projects = <<>>
    /\ stage_log = NoStage
    /\ \E team_1 \in FirstTeams :
       \E result_gen \in GenerationResponses :
       \E result_tasks \in TaskResponses :
       \E g \in {generate_project_1(team_1, result_gen, result_tasks)} :
         /\ stage_log' = g.log
         /\ all_projects' =
              IF g.log.built THEN <<g.project>> ELSE all_projects
         /\ main_4_status' =
              IF ProjectMissing(g.log.built) THEN "exit_1"
              ELSE main_4_status
    /\ UNCHANGED num_projects
    /\ UNCHANGED exceptPhase4

\* One iteration of `for i in range(2, config.NUM_PROJECTS + 1)`.
main_4_next_project ==
    /\ main_4_status = "running"
    /\ Len(all_projects) >= 1
    /\ Len(all_projects) < num_projects
    /\ \E result_gen \in GenerationResponses :
       \E result_adj \in AdjustmentResponses :
       \E result_style \in StyleResponses :
       \E result_tasks \in TaskResponses :
       \E g \in {generate_next_project(Len(all_projects) + 1, all_projects,
                                       EmployeePool, result_gen, result_adj,
                                       result_style, result_tasks)} :
         /\ stage_log' = g.log
         /\ all_projects' =
              IF g.log.built THEN Append(all_projects, g.project)
              ELSE all_projects
         /\ main_4_status' =
              IF ProjectMissing(g.log.built) THEN "exit_1"
              ELSE main_4_status
    /\ UNCHANGED num_projects
    /\ UNCHANGED exceptPhase4

\* After the loop: the summary report is written and main returns 0.
main_4_finish ==
    /\ main_4_status = "running"
    /\ Len(all_projects) >= 1
    /\ ~(Len(all_projects) < num_projects)
    /\ main_4_status' = "exit_0"
    /\ UNCHANGED <<num_projects, all_projects, stage_log>>
    /\ UNCHANGED exceptPhase4

InitPhase4 ==
    /\ num_projects \in NumProjectsSamples
    /\ all_projects = <<>>
    /\ stage_log = NoStage
    /\ main_4_status = "running"
    /\ IdleCall
    /\ IdleBatch
    /\ IdleTimeline
    /\ IdleDriver
    /\ IdleRecords
    /\ IdleFunctions

NextPhase4 ==
    \/ main_4_project_1
    \/ main_4_next_project
    \/ main_4_finish

SpecPhase4 == InitPhase4 /\ [][NextPhase4]_vars

----------------------------------------------------------------------------
(* Claims about Phase 4 *)

\* The project whose generation the log describes failed.
ProjectFailed == stage_log.project_number >= 1 /\ ~stage_log.built

CallsOf(log) ==
    IF log.project_number = 1
    THEN {log.result_gen, log.result_tasks}
    ELSE {log.result_gen, log.result_adj, log.result_style,
          log.result_tasks}

AllCallsSucceeded(log) ==
    \A result \in CallsOf(log) :
      /\ result.kind = "dict"
      /\ DOMAIN result # {"kind"}

AdjustmentAnswered ==
    /\ stage_log.project_number >= 2
    /\ stage_log.result_adj.kind = "dict"
    /\ DOMAIN stage_log.result_adj # {"kind"}

\* The names the response keeps and adds, read off the response.
DeclaredNames(result_adj) ==
    IF ~Has(result_adj, "member_adjustments") THEN {}
    ELSE Range(result_adj.member_adjustments.keep_members)
           \cup {m.user_name :
                   m \in Range(result_adj.member_adjustments.add_members)}

\* C14: for every project N >= 2 the names of the new team are (keep_members
\* plus the names of add_members) that are in the employee pool, and the
\* recorded adjustment is members_added = new - previous, members_removed =
\* previous - new; so the two are disjoint and (previous - removed) plus
\* added is the new team.
C14_TeamAndDeltaComputedLocally ==
    AdjustmentAnswered =>
      LET previous == Names(stage_log.current_team)
          new == Names(stage_log.new_team)
      IN  /\ new = DeclaredNames(stage_log.result_adj)
                     \cap Names(EmployeePool)
          /\ stage_log.built =>
               LET project == all_projects[Len(all_projects)]
                   added == project.adjustments_made.members_added
                   removed == project.adjustments_made.members_removed
               IN  /\ Names(project.members) = new
                   /\ added = new \ previous
                   /\ removed = previous \ new
                   /\ added \cap removed = {}
                   /\ (previous \ removed) \cup added = new

\* A saved project whose team lost one member and whose response also
\* named someone who is not in the pool.
C14_Witness ==
    /\ AdjustmentAnswered
    /\ stage_log.built
    /\ Names(stage_log.current_team) = {"a", "b", "c"}
    /\ Names(stage_log.new_team) = {"a", "b"}
    /\ Stranger \in DeclaredNames(stage_log.result_adj)

\* Stage 2 succeeded: its call came back with an object.
StyleAnswered ==
    /\ stage_log.project_number >= 2
    /\ stage_log.result_style.kind = "dict"

\* The vectors the response returns for a name.
ReturnedFor(result_style, name) ==
    {adj.adjusted_style :
       adj \in {a \in Range(result_style.adjusted_styles) :
                  a.user_name = name}}

\* C15: after stage 2 succeeded, a member the response names has the
\* returned vector as communication_style, a member it does not name keeps
\* the style it had before the call, and every member's
\* original_communication_style is the vector it had before the adjustment.
C15_StylesAdjustedSnapshotKept ==
    StyleAnswered =>
      /\ Len(stage_log.updated_team) = Len(stage_log.new_team)
      /\ \A i \in DOMAIN stage_log.updated_team :
           LET before == stage_log.new_team[i]
               after == stage_log.updated_team[i]
               returned == ReturnedFor(stage_log.result_style,
                                       before.user_name)
           IN  /\ after.user_name = before.user_name
               /\ returned # {} => after.communication_style \in returned
               /\ returned = {} =>
                    after.communication_style = before.communication_style
               /\ after.original_communication_style =
                    before.communication_style

\* One member was given a new style, another of the same team was not named.
C15_Witness ==
    /\ StyleAnswered
    /\ \E i, j \in DOMAIN stage_log.updated_team :
         /\ stage_log.updated_team[i].communication_style = CasualStyle
         /\ stage_log.updated_team[i].original_communication_style
              = PoolStyle
         /\ ReturnedFor(stage_log.result_style,
                        stage_log.updated_team[j].user_name) = {}
         /\ stage_log.updated_team[j].communication_style = PoolStyle

\* The subtasks a saved project stores, member after member.
RECURSIVE StoredSubtasks(_)
StoredSubtasks(members) ==
    IF members = <<>> THEN <<>>
    ELSE Head(members).subtasks \o StoredSubtasks(Tail(members))

\* C16: in every saved project the stored subtask ids are the integers 1..K,
\* each once, K being the number of subtasks of all members: the ids come
\* from a local counter, never from the response.
C16_IdsFromLocalCounter ==
    \A n \in DOMAIN all_projects :
      LET stored == StoredSubtasks(all_projects[n].members)
      IN  \A k \in DOMAIN stored :
            /\ Has(stored[k], "subtask_id")
            /\ stored[k].subtask_id = k

----------------------------------------------------------------------------
(* Claims about the validators *)

\* C17: a validator returns its pass/fail result with diagnostics for every
\* input built from a parsed response or a loaded file and never raises,
\* also when a subtask lacks subtask_id or a deadline is not a string: what
\* process_single_project gets from validate_timeline is always a report.
C17_ValidatorsNeverRaise ==
    outcome # "pending" /\ timeline_result.kind = "dict" =>
      validation.kind = "report"

----------------------------------------------------------------------------
(* Claims about the exit status *)

\* C18: a phase that ends without having produced its output file exits with
\* a non-zero status; for Phase 5: when main ends with status 0, at least
\* one project file was saved with its deadlines (so a missing projects
\* directory, no project file, or every project failing gives non-zero).
C18_NoOutputMeansNonZeroExit ==
    main_5_status = "exit_0" =>
      \E i \in DOMAIN raised_by : raised_by[i] = "success"

----------------------------------------------------------------------------
(* Phase 1 after generation: ids, validation, name repair, employees.xlsx *)

MaxEdits == 2       \* departures of the generated list from a well-formed one

\* config.TEAMS
TEAMS ==
    <<"R&D", "Marketing", "Product Design", "Sales", "Operations",
      "Finance", "Human Resources">>

\* config.TOTAL_EMPLOYEES, at the smallest value validate_config accepts
SmallTotal == TOP_LEADER_COUNT + TEAM_LEADER_COUNT + 1

\* config.RANK_COUNTS
RANK_COUNTS(total) ==
    [r \in 1..3 |->
       CASE r = 1 -> TOP_LEADER_COUNT
         [] r = 2 -> TEAM_LEADER_COUNT
         [] r = 3 -> total - TOP_LEADER_COUNT - TEAM_LEADER_COUNT]

Employee(name, team, rank) ==
    [name |-> name, team |-> team, rank |-> rank, title |-> "title"]

\* A list the model was asked for: the top leader, one leader per team, one
\* regular employee.
WellFormed ==
    <<Employee("n1", TEAMS[1], 1)>>
      \o [k \in 1..TEAM_LEADER_COUNT |->
            Employee(<<"n2", "n3", "n4", "n5", "n6", "n7", "n8">>[k],
                     TEAMS[k], 2)]
      \o <<Employee("n9", TEAMS[1], 3)>>

\* Where the generated list may depart from it: the leaders of the first
\* and of the last team and the regular employee.
EditPositions == {2, TEAM_LEADER_COUNT + 1, TEAM_LEADER_COUNT + 2}

WithoutName(e) == [k \in DOMAIN e \ {"name"} |-> e[k]]

\* One departure: a name used twice, a missing name, another rank, another
\* team, a record less, a record more.
OneEdit(list) ==
    {[list EXCEPT ![i].name = list[1].name] :
       i \in {j \in EditPositions \cap DOMAIN list : Has(list[j], "name")}}
      \cup {[list EXCEPT ![i] = WithoutName(list[i])] :
              i \in EditPositions \cap DOMAIN list}
      \cup {[list EXCEPT ![i].rank = r] :
              i \in EditPositions \cap DOMAIN list, r \in 0..3}
      \cup {[list EXCEPT ![i].team = t] :
              i \in EditPositions \cap DOMAIN list,
              t \in {TEAMS[1], TEAMS[TEAM_LEADER_COUNT], "Other"}}
      \cup (IF list = <<>> THEN {}
            ELSE {SubSeq(list, 1, Len(list) - 1),
                  Append(list, Employee("n10", TEAMS[1], 3))})

RECURSIVE Variants(_)
Variants(k) ==
    IF k = 0 THEN {WellFormed}
    ELSE Variants(k - 1)
           \cup UNION {OneEdit(list) : list \in Variants(k - 1)}

\* What generate_employee_data_in_batches may hand main.
GeneratedSamples == {<<>>} \cup Variants(MaxEdits)

\* generate_user_id(existing_ids): a string that is not in existing_ids yet;
\* the ids are opaque, the draw is represented by the least unused number.
generate_user_id(existing_ids) ==
    CHOOSE id \in 1..(Cardinality(existing_ids) + 1) :
      /\ id \notin existing_ids
      /\ \A other \in 1..(id - 1) : other \in existing_ids

\* generate_dept_id_mapping(config.TEAMS): one id per team and one for the
\* executive office; the id of TEAMS[k] is k.
dept_mapping(team) ==
    IF \E k \in DOMAIN TEAMS : TEAMS[k] = team
    THEN CHOOSE k \in DOMAIN TEAMS : TEAMS[k] = team
    ELSE IF team = "Executive" THEN Len(TEAMS) + 1
    ELSE 0 - 1

\* add_ids_to_employees: dept_mapping.get(team, "UNKNOWN") is -1 here.
RECURSIVE add_ids_to_employees(_, _)
add_ids_to_employees(emps, user_ids) ==
    IF emps = <<>> THEN <<>>
    ELSE LET e == Head(emps)
             user_id == generate_user_id(user_ids)
             with_ids ==
               [k \in DOMAIN e \cup {"user_id", "dept_id"} |->
                  CASE k = "user_id" -> user_id
                    [] k = "dept_id" -> dept_mapping(Get(e, "team", ""))
                    [] OTHER -> e[k]]
         IN  <<with_ids>>
               \o add_ids_to_employees(Tail(emps),
                                       user_ids \cup {user_id})

\* `len(set(values)) != len(values)`
\* Faulty variant: repeated values are not looked for.
MutDuplicated(values) == FALSE
Duplicated(values) == Cardinality(Range(values)) # Len(values)

\* `field not in employee or not employee[field]`
MissingField(e, field) ==
    \/ ~Has(e, field)
    \/ e[field] = (IF field \in {"user_id", "dept_id", "rank"}
                   THEN 0 ELSE "")

Diagnostic(kind, at) == [kind |-> kind, at |-> at]

\* validate_employee_data(employees): the diagnostics it collects; the data
\* is valid when there is none. All VALIDATION_RULES are switched on.
validate_employee_data(emps, total) ==
    LET names == [i \in DOMAIN emps |-> Get(emps[i], "name", "")]
        user_ids == [i \in DOMAIN emps |->
                       Get(emps[i], "user_id", 0)]
        rank_counts ==
          [r \in 1..3 |->
             Cardinality({i \in DOMAIN emps :
                            Get(emps[i], "rank", 0) = r})]
        teams_in_data == {Get(emps[i], "team", "") :
                            i \in DOMAIN emps}
    IN  (IF Len(emps) # total THEN {Diagnostic("total", 0)} ELSE {})
          \cup (IF Duplicated(names)
                THEN {Diagnostic("duplicate names", 0)} ELSE {})
          \cup (IF Duplicated(user_ids)
                THEN {Diagnostic("duplicate user ids", 0)} ELSE {})
          \cup {Diagnostic("rank", r) :
                  r \in {x \in 1..3 : rank_counts[x] # RANK_COUNTS(total)[x]}}
          \cup {Diagnostic("team", k) :
                  k \in {x \in DOMAIN TEAMS : TEAMS[x] \notin teams_in_data}}
          \cup {Diagnostic("field", i) :
                  i \in {x \in DOMAIN emps :
                           \E field \in {"name", "user_id", "team",
                                         "dept_id", "rank", "title"} :
                             MissingField(emps[x], field)}}

\* generate_chinese_name(existing_names): a name that is not in
\* existing_names; the first of these that is free represents the draw.
NamePool == <<"n2", "m1", "m2", "m3", "m4">>
generate_chinese_name(existing_names) ==
    NamePool[CHOOSE k \in DOMAIN NamePool :
               /\ NamePool[k] \notin existing_names
               /\ \A j \in 1..(k - 1) : NamePool[j] \in existing_names]

\* fix_duplicate_names(employees): the first record of a name keeps it, every
\* later record of that name gets a new one. A record without the name key
\* is never renamed.
RECURSIVE FixFrom(_, _, _, _)
FixFrom(emps, i, seen, existing_names) ==
    IF i > Len(emps) THEN [employees |-> emps, fixed_count |-> 0]
    ELSE IF ~Has(emps[i], "name")
    THEN FixFrom(emps, i + 1, seen, existing_names)
    ELSE IF emps[i].name \notin seen
    THEN FixFrom(emps, i + 1, seen \cup {emps[i].name},
                 existing_names)
    ELSE LET new_name == generate_chinese_name(existing_names)
             rest == FixFrom([emps EXCEPT ![i].name = new_name], i + 1,
                             seen, existing_names \cup {new_name})
         IN  [rest EXCEPT !.fixed_count = @ + 1]

fix_duplicate_names(emps) ==
    FixFrom(emps, 1, {},
            {Get(emps[i], "name", "") : i \in DOMAIN emps})

OnlyNameDuplicates(errors) ==
    /\ Diagnostic("duplicate names", 0) \in errors
    /\ errors \ {Diagnostic("duplicate names", 0)} = {}

\* main from `if not employees` to its return: add the ids, validate, repair
\* repeated names when that is the only diagnostic, validate again, write.
main_1_records ==
    /\ main_1_status = "running"
    /\ IF records = <<>>
       THEN /\ main_1_status' = "exit_1"
            /\ UNCHANGED <<records, checks, fixed_count, employee_file>>
       ELSE
       \E success \in BOOLEAN :
       \E emps \in {add_ids_to_employees(records, {})} :
       \E first \in {validate_employee_data(emps, SmallTotal)} :
       \E fixed \in {IF OnlyNameDuplicates(first)
                     THEN fix_duplicate_names(emps)
                     ELSE [employees |-> emps, fixed_count |-> 0]} :
       \E second \in {validate_employee_data(fixed.employees, SmallTotal)} :
         LET goes_on ==
               \/ first = {}
               \/ OnlyNameDuplicates(first) /\ second = {}
               \/ ~OnlyNameDuplicates(first) /\ first # {}
                    /\ ~STRICT_VALIDATION
         IN  /\ records' = fixed.employees
             /\ checks' = IF OnlyNameDuplicates(first)
                          THEN <<first, second>> ELSE <<first>>
             /\ fixed_count' = fixed.fixed_count
             /\ IF goes_on /\ success
                THEN /\ employee_file' =
                          [written |-> TRUE, rows |-> fixed.employees]
                     /\ main_1_status' = "exit_0"
                ELSE /\ main_1_status' = "exit_1"
                     /\ UNCHANGED employee_file
    /\ UNCHANGED exceptRecords

InitRecords ==
    /\ records \in GeneratedSamples
    /\ checks = <<>>
    /\ fixed_count = 0
    /\ employee_file = [written |-> FALSE, rows |-> <<>>]
    /\ main_1_status = "running"
    /\ IdleCall
    /\ IdleBatch
    /\ IdleTimeline
    /\ IdleDriver
    /\ IdlePhase4
    /\ IdleFunctions

NextRecords == main_1_records

SpecRecords == InitRecords /\ [][NextRecords]_vars

----------------------------------------------------------------------------
(* Claims about the employee file *)

CountWhere(rows, rank) ==
    Cardinality({i \in DOMAIN rows :
                   Has(rows[i], "rank") /\ rows[i].rank = rank})

\* C19: whenever Phase 1 writes the employee file under STRICT_VALIDATION,
\* the written records have pairwise distinct names, pairwise distinct user
\* ids, number TOTAL_EMPLOYEES and, for each rank, RANK_COUNTS[rank]
\* records, with and without the repair of repeated names.
C19_WrittenFileMeetsQuotas ==
    (STRICT_VALIDATION /\ employee_file.written) =>
      LET rows == employee_file.rows
      IN  /\ \A i \in DOMAIN rows :
               Has(rows[i], "name") /\ Has(rows[i], "user_id")
          /\ \A i, j \in DOMAIN rows :
               i # j => /\ rows[i].name # rows[j].name
                        /\ rows[i].user_id # rows[j].user_id
          /\ Len(rows) = SmallTotal
          /\ \A rank \in 1..3 :
               CountWhere(rows, rank) = RANK_COUNTS(SmallTotal)[rank]

\* The file was written after two repeated names had been replaced.
C19_Witness ==
    /\ employee_file.written
    /\ Len(checks) = 2
    /\ fixed_count = 2

\* C20: in every employee file Phase 1 writes, every department has exactly
\* one member of rank 2.
C20_OneLeaderPerDepartment ==
    employee_file.written =>
      \A k \in DOMAIN TEAMS :
        Cardinality({i \in DOMAIN employee_file.rows :
                       /\ employee_file.rows[i].team = TEAMS[k]
                       /\ employee_file.rows[i].rank = 2}) = 1

----------------------------------------------------------------------------
(* Functions of the pipeline applied on their own *)

\* The eight members of the project of the completeness scenario.
TeamRoster == <<"m1", "m2", "m3", "m4", "m5", "m6", "m7", "m8">>

Member(name) == [user_name |-> name, hard_skills |-> <<>>]

TeamSamples == {[i \in 1..k |-> Member(TeamRoster[i])] : k \in 0..Len(TeamRoster)}

Subtasks(n) == [k \in 1..n |-> [title |-> "t", required_skills |-> <<>>]]

Assignment(name, short) ==
    [user_name |-> name,
     subtasks |-> Subtasks(IF short THEN MIN_SUBTASKS_PER_MEMBER - 1
                           ELSE MIN_SUBTASKS_PER_MEMBER)]

\* A task-assignment response: one entry for each name of `present`, in
\* roster order, the entry of a name outside the pool after them, then
\* possibly an entry without the user_name key.
AssignmentList(present, short, keyless) ==
    LET Present(name) == name \in present
        named == SelectSeq(TeamRoster \o <<Stranger>>, Present)
    IN  [i \in DOMAIN named |-> Assignment(named[i], short)]
          \o (IF keyless THEN <<[subtasks |-> Subtasks(1)]>> ELSE <<>>)

AssignmentSamples ==
    {AssignmentList(present, short, keyless) :
       present \in SUBSET (Range(TeamRoster) \cup {Stranger}),
       short \in BOOLEAN, keyless \in BOOLEAN}

apply_validate_task_assignments ==
    /\ func = "validate_task_assignments"
    /\ func_result = NotApplied
    /\ func_result' =
         [called |-> TRUE,
          valid |-> validate_task_assignments(func_args.assignments,
                                              func_args.team),
          missing |-> missing_members(func_args.assignments, func_args.team)]
    /\ UNCHANGED <<func, func_args>>
    /\ UNCHANGED exceptFunctions

----------------------------------------------------------------------------
(* The response cleanup of call_gpt_for_timeline; text is a sequence of
   code points *)

MaxText == 3        \* code points of a response body

\* The ASCII code points the samples use.
Ascii ==
    [Null |-> 0, Tab |-> 9, LineFeed |-> 10, CarriageReturn |-> 13,
     Escape |-> 27, Space |-> 32, Backtick |-> 96, LetterA |-> 97,
     OpenBrace |-> 123, CloseBrace |-> 125, Delete |-> 127]

Fence == <<Ascii.Backtick, Ascii.Backtick, Ascii.Backtick>>
FenceJson == Fence \o <<106, 115, 111, 110>>

\* What str.strip() takes for white space, among the ASCII code points.
Whitespace == (9..13) \cup (28..32)

RECURSIVE LStrip(_)
LStrip(text) ==
    IF text # <<>> /\ Head(text) \in Whitespace THEN LStrip(Tail(text))
    ELSE text

RECURSIVE RStrip(_)
RStrip(text) ==
    IF text # <<>> /\ text[Len(text)] \in Whitespace
    THEN RStrip(SubSeq(text, 1, Len(text) - 1))
    ELSE text

Strip(text) == RStrip(LStrip(text))

StartsWith(text, prefix) ==
    Len(text) >= Len(prefix) /\ SubSeq(text, 1, Len(prefix)) = prefix

EndsWith(text, suffix) ==
    /\ Len(text) >= Len(suffix)
    /\ SubSeq(text, Len(text) - Len(suffix) + 1, Len(text)) = suffix

Drop(text, n) == SubSeq(text, n + 1, Len(text))

\* The character class of the pattern: [\x00-\x08\x0B-\x0C\x0E-\x1F\x7F]
RemovedByPattern == (0..8) \cup (11..12) \cup (14..31) \cup {Ascii.Delete}

\* re.sub(pattern, '', content)
RemoveControl(content) ==
    LET Kept(c) == c \notin RemovedByPattern
    IN  SelectSeq(content, Kept)

\* content.find(c): 0 stands for Python's -1, positions count from 1.
Find(content, c) ==
    IF \E i \in DOMAIN content : content[i] = c
    THEN CHOOSE i \in DOMAIN content :
           content[i] = c /\ \A j \in 1..(i - 1) : content[j] # c
    ELSE 0

RFind(content, c) ==
    IF \E i \in DOMAIN content : content[i] = c
    THEN CHOOSE i \in DOMAIN content :
           content[i] = c /\ \A j \in (i + 1)..Len(content) : content[j] # c
    ELSE 0

\* From message.content to the json_str handed to json.loads, or the
\* ValueError raised when no object is found.
clean_response(message_content) ==
    LET stripped == Strip(message_content)
        unfenced_json == IF StartsWith(stripped, FenceJson)
                         THEN Drop(stripped, 7) ELSE stripped
        unfenced == IF StartsWith(unfenced_json, Fence)
                    THEN Drop(unfenced_json, 3) ELSE unfenced_json
        closed == IF EndsWith(unfenced, Fence)
                  THEN SubSeq(unfenced, 1, Len(unfenced) - 3) ELSE unfenced
        content == RemoveControl(Strip(closed))
        start_idx == Find(content, Ascii.OpenBrace)
        end_idx == RFind(content, Ascii.CloseBrace)
    IN  IF start_idx = 0 \/ end_idx = 0 \/ start_idx >= end_idx
        THEN [called |-> TRUE, kind |-> "ValueError"]
        ELSE [called |-> TRUE, kind |-> "json_str",
              json_str |-> SubSeq(content, start_idx, end_idx)]

TextAlphabet ==
    {Ascii.Null, Ascii.Tab, Ascii.LineFeed, Ascii.CarriageReturn,
     Ascii.Escape, Ascii.Delete, Ascii.Space, Ascii.OpenBrace,
     Ascii.CloseBrace, Ascii.LetterA}

\* message.content of a response: a body, bare or inside a markdown fence.
ContentSamples ==
    {prefix \o body \o suffix :
       prefix \in {<<>>, Fence, FenceJson}, suffix \in {<<>>, Fence},
       body \in SeqsUpTo(TextAlphabet, MaxText)}

apply_clean_response ==
    /\ func = "clean_response"
    /\ func_result = NotApplied
    /\ func_result' = clean_response(func_args)
    /\ UNCHANGED <<func, func_args>>
    /\ UNCHANGED exceptFunctions

----------------------------------------------------------------------------
(* validate_timeline followed by apply_timeline_to_project, as
   process_single_project chains them *)

\* Subtasks of a project file: ids 0, 1 and 2, one already carrying a
\* deadline.
NumberedSubtasks ==
    [subtask_id : {0, 1, 2}, title : {"t"}]
      \cup {[subtask_id |-> 1, title |-> "t", deadline |-> Str(MidYear)]}

\* Entries of a task_timeline that validate_timeline accepts one by one.
DatedTasks ==
    [subtask_id : {0, 1, 2},
     deadline : {Str(TIMELINE_START_DATE), Str(TIMELINE_END_DATE)}]

ApplySamples ==
    [subtasks : SeqsUpTo(NumberedSubtasks, MaxSubtasks),
     task_timeline : SeqsUpTo(DatedTasks, MaxTimeline)]

apply_validated_timeline ==
    /\ func = "apply_timeline_to_project"
    /\ func_result = NotApplied
    /\ \E report \in {validate_timeline(func_args.subtasks,
                                        func_args.task_timeline,
                                        TIMELINE_START_DATE,
                                        TIMELINE_END_DATE)} :
         func_result' =
           [called |-> TRUE,
            valid |-> report.kind = "report" /\ report.valid,
            subtasks |-> apply_timeline_to_project(func_args.subtasks,
                                                   func_args.task_timeline)]
    /\ UNCHANGED <<func, func_args>>
    /\ UNCHANGED exceptFunctions

----------------------------------------------------------------------------
(* The Hard_Skills column: written by Phase 2, parsed by Phase 4; text is a
   sequence of characters *)

MaxSkills == 2      \* skills of one employee

\* f"{s['skill']}({s['level']})"
SkillStr(s) == s.skill \o <<"(">> \o s.level \o <<")">>

\* ", ".join(skill_strs)
RECURSIVE Join(_)
Join(strs) ==
    IF strs = <<>> THEN <<>>
    ELSE IF Len(strs) = 1 THEN strs[1]
    ELSE strs[1] \o <<",", " ">> \o Join(Tail(strs))

\* The cell write_to_excel_with_skills writes for a list of skills.
format_hard_skills(skills) ==
    IF skills = <<>> THEN <<>>
    ELSE Join([i \in DOMAIN skills |-> SkillStr(skills[i])])

\* text.split(', ')
RECURSIVE SplitCommaSpace(_, _)
SplitCommaSpace(text, item) ==
    IF text = <<>> THEN <<item>>
    ELSE IF Len(text) >= 2 /\ text[1] = "," /\ text[2] = " "
    THEN <<item>> \o SplitCommaSpace(SubSeq(text, 3, Len(text)), <<>>)
    ELSE SplitCommaSpace(Tail(text), Append(item, Head(text)))

\* item.index(c), for an item that holds c
Index(item, c) ==
    CHOOSE i \in DOMAIN item :
      item[i] = c /\ \A j \in 1..(i - 1) : item[j] # c

RECURSIVE StripSpaces(_)
StripSpaces(text) ==
    IF text # <<>> /\ Head(text) = " " THEN StripSpaces(Tail(text))
    ELSE IF text # <<>> /\ text[Len(text)] = " "
    THEN StripSpaces(SubSeq(text, 1, Len(text) - 1))
    ELSE text

\* The loop body of parse_hard_skills for one item.
ParseItem(item) ==
    IF "(" \in Range(item) /\ ")" \in Range(item)
    THEN <<[skill |-> StripSpaces(SubSeq(item, 1, Index(item, "(") - 1)),
            proficiency |->
               StripSpaces(SubSeq(item, Index(item, "(") + 1,
                                  Index(item, ")") - 1))]>>
    ELSE <<>>

RECURSIVE ParseItems(_)
ParseItems(items) ==
    IF items = <<>> THEN <<>>
    ELSE ParseItem(Head(items)) \o ParseItems(Tail(items))

\* parse_hard_skills(hard_skills_str); the empty cell is read back as NaN.
parse_hard_skills(hard_skills_str) ==
    IF hard_skills_str = <<>> THEN <<>>
    ELSE ParseItems(SplitCommaSpace(hard_skills_str, <<>>))

\* Skill names of a skill universe: plain, with parentheses, with a comma
\* followed by a space.
SkillNameSamples ==
    {<<"G", "o">>, <<"S", "Q", "L">>, <<"C", " ", "(", "A", ")">>,
     <<"R", ",", " ", "S">>}

LevelSamples == {<<"s", "t", "r", "o", "n", "g">>, <<"l", "o", "w">>}

SkillsSamples ==
    SeqsUpTo([skill : SkillNameSamples, level : LevelSamples], MaxSkills)

apply_parse_hard_skills ==
    /\ func = "parse_hard_skills"
    /\ func_result = NotApplied
    /\ \E cell \in {format_hard_skills(func_args)} :
         func_result' = [called |-> TRUE, cell |-> cell,
                         skills |-> parse_hard_skills(cell)]
    /\ UNCHANGED <<func, func_args>>
    /\ UNCHANGED exceptFunctions

----------------------------------------------------------------------------
(* generate_employee_data_in_batches when every response carries exactly
   the employees it was asked for *)

MaxTotal == 12      \* config.TOTAL_EMPLOYEES: 1..MaxTotal

\* validate_config: no error is reported. REGULAR_EMPLOYEE_COUNT is computed
\* from the other three, so the rank counts always add up.
validate_config(cfg) ==
    /\ ~(cfg.TOP_LEADER_COUNT + cfg.TEAM_LEADER_COUNT >= cfg.TOTAL_EMPLOYEES)
    /\ ~(cfg.TEAM_LEADER_COUNT # cfg.teams)

\* Configurations and batch_size arguments: the leader counts of the
\* repository and their neighbours.
ConfigSamples ==
    {cfg \in [TOTAL_EMPLOYEES : 1..MaxTotal,
              TOP_LEADER_COUNT : 0..(TOP_LEADER_COUNT + 1),
              TEAM_LEADER_COUNT : (TEAM_LEADER_COUNT - 4)..(TEAM_LEADER_COUNT + 1),
              teams : (TEAM_LEADER_COUNT - 4)..(TEAM_LEADER_COUNT + 1),
              batch_size : 1..MaxTotal] :
       validate_config(cfg)}

\* The loop from batch bn on: the sizes asked for so far and the employees
\* generated so far.
RECURSIVE FullBatches(_, _, _, _)
FullBatches(cfg, bn, requested, generated) ==
    LET total == cfg.TOTAL_EMPLOYEES
        current_batch_size ==
          IF bn = 1
          THEN first_batch_size(cfg.TOP_LEADER_COUNT, cfg.TEAM_LEADER_COUNT,
                                cfg.batch_size, total)
          ELSE Min(cfg.batch_size, total - generated)
    IN  IF bn > TotalBatches(total, cfg.batch_size)
           \/ current_batch_size <= 0
        THEN [called |-> TRUE, requested |-> requested,
              all_employees |-> generated]
        ELSE FullBatches(cfg, bn + 1, Append(requested, current_batch_size),
                         generated + current_batch_size)

apply_generate_employee_data_in_batches ==
    /\ func = "generate_employee_data_in_batches"
    /\ func_result = NotApplied
    /\ func_result' = FullBatches(func_args, 1, <<>>, 0)
    /\ UNCHANGED <<func, func_args>>
    /\ UNCHANGED exceptFunctions

----------------------------------------------------------------------------
(* fix_duplicate_names on any list of records *)

\* Records with one of two names, with the empty name, without the key.
NamedRecords ==
    [name : {"n1", "n2", ""}, title : {"title"}] \cup {[title |-> "title"]}

RecordLists == SeqsUpTo(NamedRecords, MaxEmployees)

apply_fix_duplicate_names ==
    /\ func = "fix_duplicate_names"
    /\ func_result = NotApplied
    /\ \E fixed \in {fix_duplicate_names(func_args)} :
         func_result' = [called |-> TRUE, employees |-> fixed.employees,
                         fixed_count |-> fixed.fixed_count]
    /\ UNCHANGED <<func, func_args>>
    /\ UNCHANGED exceptFunctions

----------------------------------------------------------------------------
(* The two validators of a communication style on the same vector *)

DimensionNames ==
    {generate_communication_style_universe[i].dimension :
       i \in DOMAIN generate_communication_style_universe}

\* Per dimension: a label of the dimension, a word that is none of its
\* labels, or no entry; and possibly a ninth dimension.
MediumLabel(d) ==
    LET universe == generate_communication_style_universe
    IN  universe[CHOOSE i \in DOMAIN universe :
                   universe[i].dimension = d].levels.medium

StyleVector(choice, extra) ==
    [d \in {x \in DimensionNames : choice[x] # "none"} \cup extra |->
       IF d \notin DimensionNames THEN "Neutral"
       ELSE IF choice[d] = "label" THEN MediumLabel(d)
       ELSE "Loud"]

StyleVectors ==
    {StyleVector(choice, extra) :
       choice \in [DimensionNames -> {"label", "word", "none"}],
       extra \in {{}, {"Tone"}}}

apply_style_validators ==
    /\ func = "validate_communication_style"
    /\ func_result = NotApplied
    /\ func_result' =
         [called |-> TRUE,
          phase_3 |-> validate_communication_style(
                        func_args,
                        generate_communication_style_universe).is_valid,
          phase_4 |-> validate_communication_styles(
                        <<[user_name |-> "a",
                           communication_style |-> func_args]>>)]
    /\ UNCHANGED <<func, func_args>>
    /\ UNCHANGED exceptFunctions

InitFunctions ==
    /\ \/ /\ func = "validate_task_assignments"
          /\ func_args \in [assignments : AssignmentSamples,
                            team : TeamSamples]
       \/ /\ func = "clean_response"
          /\ func_args \in ContentSamples
       \/ /\ func = "apply_timeline_to_project"
          /\ func_args \in ApplySamples
       \/ /\ func = "parse_hard_skills"
          /\ func_args \in SkillsSamples
       \/ /\ func = "generate_employee_data_in_batches"
          /\ func_args \in ConfigSamples
       \/ /\ func = "fix_duplicate_names"
          /\ func_args \in RecordLists
       \/ /\ func = "validate_communication_style"
          /\ func_args \in StyleVectors
    /\ func_result = NotApplied
    /\ IdleCall
    /\ IdleBatch
    /\ IdleTimeline
    /\ IdleDriver
    /\ IdlePhase4
    /\ IdleRecords

NextFunctions ==
    \/ apply_validate_task_assignments
    \/ apply_clean_response
    \/ apply_validated_timeline
    \/ apply_parse_hard_skills
    \/ apply_generate_employee_data_in_batches
    \/ apply_fix_duplicate_names
    \/ apply_style_validators

SpecFunctions == InitFunctions /\ [][NextFunctions]_vars

----------------------------------------------------------------------------
(* Claims about the functions *)

Applied(name) == func = name /\ func_result # NotApplied

\* The names the response has an entry for.
NamesPresent ==
    {func_args.assignments[i].user_name :
       i \in {j \in DOMAIN func_args.assignments :
                Has(func_args.assignments[j], "user_name")}}

----------------------------------------------------------------------------
(* Claims about the merged map of communication styles *)

\* The labels of one dimension of the universe.
Labels(dim) == {dim.levels.high, dim.levels.medium, dim.levels.low}

\* A vector with exactly the dimensions of the universe, each value one of
\* the labels of its dimension, compared character by character.
WellFormedStyle(style) ==
    LET universe == generate_communication_style_universe
    IN  /\ DOMAIN style = {universe[i].dimension : i \in DOMAIN universe}
        /\ Cardinality(DOMAIN style) = Len(universe)
        /\ \A i \in DOMAIN universe :
             style[universe[i].dimension] \in Labels(universe[i])

----------------------------------------------------------------------------
(* Claims about the order of the stages of a project *)

\* The calls of a later project in the order the stages make them.
StageCalls(log) ==
    <<log.result_gen, log.result_adj, log.result_style, log.result_tasks>>

Exhausted(result) == result.kind = "None"
Made(result) == result # NotCalled
CameBack(result) == Made(result) /\ ~Exhausted(result)

\* C23: for every project N >= 2 the stages run in the order topic
\* generation, member adjustment, communication-style adjustment, task
\* breakdown, save; a stage starts only after the previous one succeeded,
\* and when the call of a stage exhausted its retries no later stage runs
\* and no file is written for the project.
C23_StagesInOrder ==
    stage_log.project_number >= 2 =>
      LET calls == StageCalls(stage_log)
      IN  /\ Made(calls[1])
          /\ \A k \in 2..Len(calls) : Made(calls[k]) => CameBack(calls[k - 1])
          /\ stage_log.built => CameBack(calls[Len(calls)])
          /\ \A k \in DOMAIN calls :
               Exhausted(calls[k]) =>
                 /\ \A later \in (k + 1)..Len(calls) : ~Made(calls[later])
                 /\ ~stage_log.built
                 /\ Len(all_projects) = stage_log.project_number - 1

\* The style call of project 2 exhausted its retries after the first two
\* stages had succeeded: no task breakdown, no file.
C23_Witness ==
    /\ stage_log.project_number = 2
    /\ CameBack(stage_log.result_gen)
    /\ CameBack(stage_log.result_adj)
    /\ Exhausted(stage_log.result_style)
    /\ ~Made(stage_log.result_tasks)
    /\ ~stage_log.built
    /\ Len(all_projects) = 1
----------------------------------------------------------------------------
(* Claims about the response cleanup *)

\* C25: the cleanup of the timeline caller removes every ASCII control
\* character (code points 0-31 and 127), so no tab, line feed or carriage
\* return is left in the text handed to the JSON parser.
C25_NoControlCharacterLeft ==
    (Applied("clean_response") /\ func_result.kind = "json_str") =>
      \A i \in DOMAIN func_result.json_str :
        func_result.json_str[i] \notin (0..31) \cup {127}
----------------------------------------------------------------------------
(* Claims about applying a timeline *)

WithoutDeadline(subtask) ==
    [k \in DOMAIN subtask \ {"deadline"} |-> subtask[k]]

\* C26: after a timeline that passed validate_timeline is applied by
\* apply_timeline_to_project, every subtask of the project carries the
\* deadline the response gave for its id, for every integer id including 0,
\* and nothing else in the project is changed.
C26_EverySubtaskGetsItsDeadline ==
    (Applied("apply_timeline_to_project") /\ func_result.valid) =>
      LET before == func_args.subtasks
          after == func_result.subtasks
          tasks == func_args.task_timeline
      IN  /\ Len(after) = Len(before)
          /\ \A i \in DOMAIN before :
               /\ WithoutDeadline(after[i]) = WithoutDeadline(before[i])
               /\ Has(after[i], "deadline")
               /\ \E k \in DOMAIN tasks :
                    /\ tasks[k].subtask_id = before[i].subtask_id
                    /\ tasks[k].deadline = after[i].deadline
----------------------------------------------------------------------------
(* Claims about the skills column *)

\* C27: for every list of (skill, level) pairs Phase 2 writes as the
\* comma-joined "Skill(level)" text, parse_hard_skills of Phase 4 returns
\* the same pairs in the same order, also for skill names that contain
\* parentheses or a comma followed by a space.
C27_SkillsRoundTrip ==
    Applied("parse_hard_skills") =>
      /\ Len(func_result.skills) = Len(func_args)
      /\ \A i \in DOMAIN func_args :
           /\ func_result.skills[i].skill = func_args[i].skill
           /\ func_result.skills[i].proficiency = func_args[i].level
----------------------------------------------------------------------------
(* Claims about the batches of Phase 1 *)

RECURSIVE Sum(_)
Sum(numbers) ==
    IF numbers = <<>> THEN 0 ELSE Head(numbers) + Sum(Tail(numbers))

\* C28: for every configuration that passes validate_config and every
\* batch_size >= 1, when every batch response holds exactly the employees
\* asked for, the returned list has exactly TOTAL_EMPLOYEES entries, and
\* the batch sizes asked for never add up to more than TOTAL_EMPLOYEES.
C28_FullBatchesGiveTheTotal ==
    Applied("generate_employee_data_in_batches") =>
      /\ func_result.all_employees = func_args.TOTAL_EMPLOYEES
      /\ Sum(func_result.requested) <= func_args.TOTAL_EMPLOYEES
----------------------------------------------------------------------------
(* Claims about the repair of repeated names *)

\* The name of a record as name_counts and validate_employee_data read it.
NameOf(record) == Get(record, "name", "")

\* C29: after fix_duplicate_names all names are pairwise distinct, the
\* first record of every repeated name keeps its name, records whose name
\* was not repeated are unchanged, and the count returned is the number of
\* records renamed, the sum over the repeated names of (occurrences - 1);
\* for every list, also with empty or missing names.
C29_RepairMakesNamesDistinct ==
    Applied("fix_duplicate_names") =>
      LET before == func_args
          after == func_result.employees
          later == {i \in DOMAIN before :
                      \E j \in 1..(i - 1) : NameOf(before[j]) = NameOf(before[i])}
      IN  /\ Len(after) = Len(before)
          /\ \A i, j \in DOMAIN after :
               i # j => NameOf(after[i]) # NameOf(after[j])
          /\ \A i \in DOMAIN before \ later : after[i] = before[i]
          /\ func_result.fixed_count =
               Cardinality({i \in DOMAIN before : after[i] # before[i]})
          /\ func_result.fixed_count = Cardinality(later)
----------------------------------------------------------------------------
(* Claims about the two style validators *)

\* C30: for every style vector, validate_communication_styles of Phase 4
\* accepts it if and only if validate_communication_style of Phase 3
\* accepts it.
C30_ValidatorsAgree ==
    Applied("validate_communication_style") =>
      (func_result.phase_4 <=> func_result.phase_3)
====
